---- MODULE Spec2Model ----
(***************************************************************************)
(* Round controllers of the mandai-game mini-games: PaddleFoodScene,       *)
(* MatchPenguinScene, PinkParentsScene (flamingo variant), CatchFishScene  *)
(* (anchored variant) and CountEggScene.  One scene is active at a time; its *)
(* handlers, tween completions and timer callbacks are the actions.        *)
(* Tweens and delayed calls are modelled as pending callbacks that fire in *)
(* any order the scheduler allows.                                         *)
(***************************************************************************)
EXTENDS Integers, Sequences, FiniteSets, TLC

VARIABLES
    scene,   \* key of the active scene (GameController.activeSceneKey)
    ev,      \* the handler that ran in the last step: [op, arg, fx]
    popup,   \* UIManager.activePopup: "none" | "shown"
    pf,      \* PaddleFoodScene fields and pending callbacks
    mp,      \* MatchPenguinScene fields and pending callbacks
    pp,      \* PinkParentsScene fields and pending callbacks
    cf,      \* CatchFishScene fields, fish objects and pending callbacks
    ce,      \* CountEggScene fields and pending callbacks
    app      \* window location, Router, Phaser scene manager and the
             \* BaseScene part of every scene

vars == <<scene, ev, popup, pf, mp, pp, cf, ce, app>>

NoEv == [op |-> "create", arg |-> "-", fx |-> "none"]

Min(a, b) == IF a < b THEN a ELSE b

(***************************************************************************)
(* PaddleFoodScene                                                         *)
(***************************************************************************)
BASE_STEP == 5
MAX_PROGRESS == 100
MAX_TAPS == MAX_PROGRESS \div BASE_STEP
SCROLL_PER_TAP == 50
DUCK_Y == 430
TOTAL_SCROLL == MAX_TAPS * SCROLL_PER_TAP
FINISH_Y0 == DUCK_Y - TOTAL_SCROLL

PaddleSide == {"left", "right"}

\* a tap that leaves the expected side where it was
OtherSide_same(side) == side

OtherSide(side) == IF side = "left" THEN "right" ELSE "left"

\* resetState() followed by createTrack(): fields at scene creation.
\* History fields: lastAccepted is the side of the last accepted tap, wins
\* and popups count the runs of handleWin() and of showPopup() in this
\* activation.
PaddleFresh ==
    [progress |-> 0, expectedSide |-> "left", gameState |-> "Idle",
     tapCount |-> 0, finishTargetY |-> FINISH_Y0,
     winTimer |-> FALSE, popupTimer |-> FALSE, lastAccepted |-> "none",
     wins |-> 0, popups |-> 0]

\* scene shutdown: the scene's Clock drops every pending delayed call
PF_shutdown(p) == [p EXCEPT !.winTimer = FALSE, !.popupTimer = FALSE]

\* a resetState() that forgets the tap counter
PF_resetState_keepTaps(p) ==
    [p EXCEPT !.progress = 0, !.expectedSide = "left", !.gameState = "Idle"]

\* resetState()
PF_resetState(p) ==
    [p EXCEPT !.progress = 0, !.expectedSide = "left", !.gameState = "Idle",
              !.tapCount = 0]

\* create() of a new activation: resetState(), createTrack()
PF_create(p) ==
    [PF_resetState(p) EXCEPT !.finishTargetY = FINISH_Y0,
                             !.lastAccepted = "none",
                             !.wins = 0, !.popups = 0]

\* an unclamped step with a streak bonus after the third correct tap
CorrectTapProgress_streak(p) ==
    p + (IF p >= 3 * BASE_STEP THEN BASE_STEP + 3 ELSE BASE_STEP)

\* progress after a correct tap (handleCorrectTap, first statement)
CorrectTapProgress(p) == Min(MAX_PROGRESS, p + BASE_STEP)

\* the penalty policy: a wrong-side tap subtracts 4
WrongTapProgress_penalty(p) == p - 4

\* progress after a wrong-side tap: flash only, no penalty
WrongTapProgress(p) == p

\* a win test that fires one step before the bar is full
PF_hasWon_early(p) == p + BASE_STEP >= MAX_PROGRESS

\* this.progress >= MAX_PROGRESS
PF_hasWon(p) == p >= MAX_PROGRESS

\* a scroll step that divides the track by the gaps between the taps
PF_scrollTargetY_fencePost(y) == y + TOTAL_SCROLL \div (MAX_TAPS - 1)

\* scrollTrack(): the new targetY of one image
PF_scrollTargetY(y) == y + SCROLL_PER_TAP

\* PF_handleCorrectTap(side), including scrollTrack() for the finish spot
PF_handleCorrectTap(side) ==
    LET np == CorrectTapProgress(pf.progress)
        won == PF_hasWon(np)
    IN  pf' = [pf EXCEPT
                 !.progress = np,
                 !.expectedSide = OtherSide(side),
                 !.tapCount = @ + 1,
                 !.finishTargetY = PF_scrollTargetY(@),
                 !.gameState = IF won THEN "Finished"
                               ELSE IF @ = "Idle" THEN "Swimming" ELSE @,
                 !.winTimer = IF won THEN TRUE ELSE @,
                 !.lastAccepted = side]

\* onTap without the Finished guard
TapIgnored_popupOnly == popup = "shown"

\* the guards of onTap: Finished, or a popup is showing
TapIgnored == pf.gameState = "Finished" \/ popup = "shown"

\* PF_onTap(side): pointerdown on one of the two tap zones
PF_onTap(side) ==
    /\ scene = "PaddleFood"
    /\ IF TapIgnored
       THEN /\ pf' = pf
            /\ ev' = [op |-> "onTap", arg |-> side, fx |-> "none"]
       ELSE IF side = pf.expectedSide
       THEN /\ PF_handleCorrectTap(side)
            /\ ev' = [op |-> "onTap", arg |-> side, fx |-> "flashGreen"]
       ELSE /\ pf' = [pf EXCEPT !.progress = WrongTapProgress(@)]
            /\ ev' = [op |-> "onTap", arg |-> side, fx |-> "flashRed"]
    /\ UNCHANGED <<app, scene, popup, mp, pp, cf, ce>>

\* the 380 ms delayed call of handleCorrectTap fires: handleWin()
PF_handleWin ==
    /\ scene = "PaddleFood"
    /\ pf.winTimer
    /\ pf' = [pf EXCEPT !.winTimer = FALSE, !.popupTimer = TRUE,
                        !.wins = @ + 1]
    /\ ev' = [op |-> "handleWin", arg |-> "-", fx |-> "celebration"]
    /\ UNCHANGED <<app, scene, popup, mp, pp, cf, ce>>

\* the 950 ms delayed call of handleWin fires: uiManager.showPopup(...)
PF_showPopup ==
    /\ scene = "PaddleFood"
    /\ pf.popupTimer
    /\ pf' = [pf EXCEPT !.popupTimer = FALSE, !.popups = @ + 1]
    /\ popup' = "shown"
    /\ ev' = [op |-> "showPopup", arg |-> "-", fx |-> "none"]
    /\ UNCHANGED <<app, scene, mp, pp, cf, ce>>

\* "Play Again": dismissPopup(), then scene.restart() -> shutdown + create()
PF_playAgain ==
    /\ scene = "PaddleFood"
    /\ popup = "shown"
    /\ popup' = "none"
    /\ pf' = PF_create(PF_shutdown(pf))
    /\ ev' = [op |-> "restart", arg |-> "-", fx |-> "playAgain"]
    /\ UNCHANGED <<app, scene, mp, pp, cf, ce>>

\* switchScene(PaddleFood) while the scene is active: stop, then start
PF_switchScene ==
    /\ scene = "PaddleFood"
    /\ popup' = "none"
    /\ pf' = PF_create(PF_shutdown(pf))
    /\ ev' = [op |-> "restart", arg |-> "-", fx |-> "switchScene"]
    /\ UNCHANGED <<app, scene, mp, pp, cf, ce>>

PaddleNext ==
    \/ \E side \in PaddleSide : PF_onTap(side)
    \/ PF_handleWin
    \/ PF_showPopup
    \/ PF_playAgain
    \/ PF_switchScene

(***************************************************************************)
(* MatchPenguinScene                                                       *)
(***************************************************************************)
PENGUIN_IDS == <<"a", "b", "c">>

PenguinId == {PENGUIN_IDS[i] : i \in 1..Len(PENGUIN_IDS)}

DRAGGING_ALPHA == "0.4"
MATCHED_ALPHA == "0.4"
FULL_ALPHA == "1"

\* a shuffle that draws every position independently
Shuffle_withRepeats(ids) == [1..Len(ids) -> {ids[i] : i \in 1..Len(ids)}]

\* the results Phaser.Utils.Array.Shuffle can give for a list of ids
Shuffle(ids) ==
    {q \in [1..Len(ids) -> {ids[i] : i \in 1..Len(ids)}] :
        \A i, j \in 1..Len(ids) : i # j => q[i] # q[j]}

\* field initialisers of the class: the scene before its first create().
\* History fields: matches counts the correct matches judged in this
\* activation, wins and popups the runs of handleAllMatched() and of
\* showPopup()
MP_Unborn ==
    [matchState |-> "Idle",
     matched |-> [b \in PenguinId |-> FALSE],
     interactive |-> [b \in PenguinId |-> FALSE],
     alpha |-> [b \in PenguinId |-> FULL_ALPHA],
     parentQueue |-> <<>>,
     activeParentIndex |-> 0,
     activeParentSprite |-> "null",
     liveParents |-> 0,
     dropAreaSprite |-> "null",
     dragBaby |-> "null",
     cloneOver |-> FALSE,
     liveClones |-> 0,
     pointerHandlers |-> FALSE,
     registered |-> 0,
     spawnTween |-> FALSE,
     snapTween |-> FALSE,
     slideTween |-> FALSE,
     finishTimer |-> FALSE,
     matches |-> 0,
     wins |-> 0,
     popups |-> 0]

\* handleAllMatched(): Finished, celebration, 1200 ms popup timer
MP_handleAllMatched(m) ==
    [m EXCEPT !.matchState = "Finished", !.finishTimer = TRUE,
              !.wins = @ + 1]

\* the parent sprite and the drop area created by spawnNextParent()
MP_createParent(m) ==
    [m EXCEPT !.matchState = "Animating",
              !.dropAreaSprite = "visible",
              !.activeParentSprite = m.parentQueue[m.activeParentIndex + 1].id,
              !.liveParents = @ + 1,
              !.spawnTween = TRUE]

\* spawnNextParent()
MP_spawnNextParent(m) ==
    IF m.activeParentIndex >= Len(PENGUIN_IDS)
    THEN MP_handleAllMatched(m)
    ELSE MP_createParent(m)

\* destroyActiveParent() that clears the reference without destroying the sprite
MP_destroyActiveParent_keepSprite(m) ==
    [m EXCEPT !.activeParentSprite = "null", !.dropAreaSprite = "null"]

\* destroyActiveParent()
MP_destroyActiveParent(m) ==
    [m EXCEPT !.liveParents = IF m.activeParentSprite # "null" THEN @ - 1 ELSE @,
              !.activeParentSprite = "null",
              !.dropAreaSprite = "null"]

\* scene shutdown: every game object, tween and delayed call of the scene
\* is destroyed and the input plugin drops its listeners
MP_shutdown(m) ==
    [m EXCEPT !.liveParents = 0, !.liveClones = 0, !.registered = 0,
              !.interactive = [b \in PenguinId |-> FALSE],
              !.spawnTween = FALSE, !.snapTween = FALSE,
              !.slideTween = FALSE, !.finishTimer = FALSE]

\* initState()
MP_initState(m) ==
    [m EXCEPT !.matchState = "Idle",
              !.parentQueue = <<>>,
              !.activeParentIndex = 0,
              !.activeParentSprite = "null",
              !.dropAreaSprite = "null",
              !.dragBaby = "null",
              !.cloneOver = FALSE,
              !.pointerHandlers = FALSE]

\* createChildren(): three new baby sprites, none matched
MP_createChildren(m) ==
    [m EXCEPT !.matched = [b \in PenguinId |-> FALSE],
              !.interactive = [b \in PenguinId |-> TRUE],
              !.alpha = [b \in PenguinId |-> FULL_ALPHA]]

\* buildParentQueue() when the shuffle gives order
MP_buildParentQueue(m, order) ==
    [m EXCEPT !.parentQueue =
        [i \in 1..Len(order) |-> [id |-> order[i], targetBabyId |-> order[i]]]]

\* create() of a new activation: initState, createChildren,
\* buildParentQueue, spawnNextParent
MP_create(m, order) ==
    MP_spawnNextParent(
        MP_buildParentQueue(
            MP_createChildren(
                [MP_initState(m) EXCEPT !.matches = 0, !.wins = 0, !.popups = 0]),
            order))

\* isOverDropArea(clone.x, clone.y)
MP_isOverDropArea(m) == m.dropAreaSprite = "visible" /\ m.cloneOver

\* handleDragStart without the state guard
MP_dragStartIgnored_matchedOnly(b) == mp.matched[b]

\* the guards of handleDragStart
MP_dragStartIgnored(b) == mp.matchState # "Idle" \/ mp.matched[b]

\* handleDragStart(baby, pointer): pointerdown on an interactive baby sprite;
\* over tells whether the pointer is inside the drop-area bounds
MP_handleDragStart(b, over) ==
    /\ scene = "MatchPenguin"
    /\ mp.interactive[b]
    /\ IF MP_dragStartIgnored(b)
       THEN /\ mp' = mp
            /\ ev' = [op |-> "handleDragStart", arg |-> b, fx |-> "none"]
       ELSE /\ mp' = [mp EXCEPT !.matchState = "Dragging",
                                !.alpha[b] = DRAGGING_ALPHA,
                                !.dragBaby = b,
                                !.cloneOver = over,
                                !.liveClones = @ + 1,
                                !.pointerHandlers = TRUE,
                                !.registered = @ + 1]
            /\ ev' = [op |-> "handleDragStart", arg |-> b, fx |-> "clone"]
    /\ UNCHANGED <<app, scene, popup, pf, pp, cf, ce>>

\* onPointerMove(pointer): the global pointermove listener
MP_onPointerMove(over) ==
    /\ scene = "MatchPenguin"
    /\ mp.registered > 0
    /\ mp' = IF mp.dragBaby = "null" THEN mp ELSE [mp EXCEPT !.cloneOver = over]
    /\ ev' = [op |-> "onPointerMove", arg |-> "-", fx |-> "none"]
    /\ UNCHANGED <<app, scene, popup, pf, pp, cf, ce>>

\* a removePointerListeners() that only forgets the handlers
MP_removePointerListeners_forget(m) == [m EXCEPT !.pointerHandlers = FALSE]

\* removePointerListeners()
MP_removePointerListeners(m) ==
    [m EXCEPT !.registered = IF m.pointerHandlers THEN @ - 1 ELSE @,
              !.pointerHandlers = FALSE]

\* a handleCorrectMatch() that never sets baby.matched
MP_handleCorrectMatch_noFlag(m, b) ==
    IF m.activeParentSprite = "null" THEN m
    ELSE [m EXCEPT !.matchState = "Animating",
                   !.alpha[b] = MATCHED_ALPHA,
                   !.interactive[b] = FALSE,
                   !.dragBaby = "null",
                   !.dropAreaSprite = IF @ = "null" THEN @ ELSE "hidden",
                   !.snapTween = TRUE,
                   !.matches = @ + 1]

\* handleCorrectMatch(baby, clone)
MP_handleCorrectMatch(m, b) ==
    IF m.activeParentSprite = "null" THEN m
    ELSE [m EXCEPT !.matchState = "Animating",
                   !.matched[b] = TRUE,
                   !.alpha[b] = MATCHED_ALPHA,
                   !.interactive[b] = FALSE,
                   !.dragBaby = "null",
                   !.dropAreaSprite = IF @ = "null" THEN @ ELSE "hidden",
                   !.snapTween = TRUE,
                   !.matches = @ + 1]

\* a handleWrongMatch() that makes every baby selectable again
MP_handleWrongMatch_unmatch(m, b) ==
    [m EXCEPT !.alpha = [x \in PenguinId |-> FULL_ALPHA],
              !.matched = [x \in PenguinId |-> FALSE],
              !.liveClones = @ - 1,
              !.dragBaby = "null",
              !.matchState = "Idle"]

\* handleWrongMatch(baby, clone) and handleMiss(baby, clone) change the same
\* fields; only the wrong match shows the try-again toast
MP_handleWrongMatch(m, b) ==
    [m EXCEPT !.alpha[b] = FULL_ALPHA,
              !.liveClones = @ - 1,
              !.dragBaby = "null",
              !.matchState = "Idle"]

\* a handleMiss() that does not return to Idle
MP_handleMiss_keepState(m, b) ==
    [m EXCEPT !.alpha[b] = FULL_ALPHA,
              !.liveClones = @ - 1,
              !.dragBaby = "null"]

\* a handleMiss() that leaves the baby dimmed
MP_handleMiss_dimmed(m, b) ==
    [m EXCEPT !.liveClones = @ - 1,
              !.dragBaby = "null",
              !.matchState = "Idle"]

MP_handleMiss(m, b) ==
    [m EXCEPT !.alpha[b] = FULL_ALPHA,
              !.liveClones = @ - 1,
              !.dragBaby = "null",
              !.matchState = "Idle"]

\* the outcome handleDrop() selects for the dragged baby
MP_dropOutcome(m) ==
    IF m.dragBaby = "null" \/ m.activeParentSprite = "null" THEN "ignored"
    ELSE IF ~MP_isOverDropArea(m) THEN "miss"
    ELSE IF m.dragBaby = m.parentQueue[m.activeParentIndex + 1].targetBabyId THEN "correct"
    ELSE "wrong"

\* handleDrop()
MP_handleDrop(m) ==
    CASE MP_dropOutcome(m) = "ignored" -> m
      [] MP_dropOutcome(m) = "correct" -> MP_handleCorrectMatch(m, m.dragBaby)
      [] MP_dropOutcome(m) = "wrong" -> MP_handleWrongMatch(m, m.dragBaby)
      [] MP_dropOutcome(m) = "miss" -> MP_handleMiss(m, m.dragBaby)

\* the feedback shown by handleDrop()
MP_dropFx(m) ==
    CASE MP_dropOutcome(m) = "correct" /\ m.activeParentSprite # "null" -> "toastCorrect"
      [] MP_dropOutcome(m) = "wrong" -> "toastTryAgain"
      [] OTHER -> "none"

\* onPointerUp(): the global pointerup listener
MP_onPointerUp ==
    /\ scene = "MatchPenguin"
    /\ mp.registered > 0
    /\ IF mp.dragBaby = "null"
       THEN /\ mp' = mp
            /\ ev' = [op |-> "onPointerUp", arg |-> "ignored", fx |-> "none"]
       ELSE /\ mp' = MP_handleDrop(MP_removePointerListeners(mp))
            /\ ev' = [op |-> "onPointerUp", arg |-> MP_dropOutcome(mp),
                      fx |-> MP_dropFx(mp)]
    /\ UNCHANGED <<app, scene, popup, pf, pp, cf, ce>>

\* onComplete of the drop-area fade-in tween of spawnNextParent()
MP_spawnComplete ==
    /\ scene = "MatchPenguin"
    /\ mp.spawnTween
    /\ mp' = [mp EXCEPT !.spawnTween = FALSE, !.matchState = "Idle"]
    /\ ev' = [op |-> "spawnComplete", arg |-> "-", fx |-> "none"]
    /\ UNCHANGED <<app, scene, popup, pf, pp, cf, ce>>

\* onComplete of the snap tween: celebration, then the slide-out tween
MP_snapComplete ==
    /\ scene = "MatchPenguin"
    /\ mp.snapTween
    /\ mp' = [mp EXCEPT !.snapTween = FALSE, !.slideTween = TRUE]
    /\ ev' = [op |-> "snapComplete", arg |-> "-", fx |-> "celebration"]
    /\ UNCHANGED <<app, scene, popup, pf, pp, cf, ce>>

\* a slide-out completion that advances the index twice
MP_afterSlide_twice(m) ==
    [MP_destroyActiveParent(m) EXCEPT !.slideTween = FALSE,
                                      !.liveClones = @ - 1,
                                      !.activeParentIndex = Min(@ + 2, Len(PENGUIN_IDS))]

\* the fields after the slide-out: destroyActiveParent(), clone.destroy(),
\* activeParentIndex++
MP_afterSlide(m) ==
    [MP_destroyActiveParent(m) EXCEPT !.slideTween = FALSE,
                                      !.liveClones = @ - 1,
                                      !.activeParentIndex = @ + 1]

\* onComplete of the slide-out tween: cleanup and spawnNextParent()
MP_slideComplete ==
    /\ scene = "MatchPenguin"
    /\ mp.slideTween
    /\ mp' = MP_spawnNextParent(MP_afterSlide(mp))
    /\ ev' = [op |-> "slideComplete", arg |-> "-",
              fx |-> IF mp'.matchState = "Finished" THEN "celebration" ELSE "none"]
    /\ UNCHANGED <<app, scene, popup, pf, pp, cf, ce>>

\* the FINISH_POPUP_DELAY timer of handleAllMatched() fires: showPopup(...)
MP_showPopup ==
    /\ scene = "MatchPenguin"
    /\ mp.finishTimer
    /\ mp' = [mp EXCEPT !.finishTimer = FALSE, !.popups = @ + 1]
    /\ popup' = "shown"
    /\ ev' = [op |-> "showPopup", arg |-> "-", fx |-> "none"]
    /\ UNCHANGED <<app, scene, pf, pp, cf, ce>>

\* "Play Again": dismissPopup(), then scene.restart() -> shutdown + create()
MP_playAgain ==
    /\ scene = "MatchPenguin"
    /\ popup = "shown"
    /\ popup' = "none"
    /\ \E order \in Shuffle(PENGUIN_IDS) : mp' = MP_create(MP_shutdown(mp), order)
    /\ ev' = [op |-> "restart", arg |-> "-", fx |-> "playAgain"]
    /\ UNCHANGED <<app, scene, pf, pp, cf, ce>>

\* switchScene(MatchPenguin) while the scene is active: stop, then start
MP_switchScene ==
    /\ scene = "MatchPenguin"
    /\ popup' = "none"
    /\ \E order \in Shuffle(PENGUIN_IDS) : mp' = MP_create(MP_shutdown(mp), order)
    /\ ev' = [op |-> "restart", arg |-> "-", fx |-> "switchScene"]
    /\ UNCHANGED <<app, scene, pf, pp, cf, ce>>

PenguinNext ==
    \/ \E b \in PenguinId, over \in BOOLEAN : MP_handleDragStart(b, over)
    \/ \E over \in BOOLEAN : MP_onPointerMove(over)
    \/ MP_onPointerUp
    \/ MP_spawnComplete
    \/ MP_snapComplete
    \/ MP_slideComplete
    \/ MP_showPopup
    \/ MP_playAgain
    \/ MP_switchScene

(***************************************************************************)
(* PinkParentsScene (sequential flamingo matching)                         *)
(***************************************************************************)
FLAMINGO_IDS == <<"1", "2", "3">>

FlamingoId == {FLAMINGO_IDS[i] : i \in 1..Len(FLAMINGO_IDS)}

\* field initialisers of the class: the scene before its first create().
\* History fields: matches, wins and popups as in the penguin scene
PP_Unborn ==
    [matchState |-> "Idle",
     swatchInteractive |-> [c \in FlamingoId |-> FALSE],
     flamingoQueue |-> <<>>,
     activeFlamingoIndex |-> 0,
     activeFlamingoSprite |-> "null",
     liveFlamingos |-> 0,
     spawnTween |-> FALSE,
     slideTween |-> FALSE,
     finishTimer |-> FALSE,
     matches |-> 0,
     wins |-> 0,
     popups |-> 0]

\* handleAllMatched(): Finished, celebration, 1200 ms popup timer
PP_handleAllMatched(m) ==
    [m EXCEPT !.matchState = "Finished", !.finishTimer = TRUE,
              !.wins = @ + 1]

\* the flamingo sprite created by spawnNextFlamingo()
PP_createFlamingo(m) ==
    [m EXCEPT !.matchState = "Animating",
              !.activeFlamingoSprite = m.flamingoQueue[m.activeFlamingoIndex + 1].id,
              !.liveFlamingos = @ + 1,
              !.spawnTween = TRUE]

\* a spawnNextFlamingo() that ends the game one flamingo early
PP_spawnNextFlamingo_early(m) ==
    IF m.activeFlamingoIndex >= Len(FLAMINGO_IDS) - 1
    THEN PP_handleAllMatched(m)
    ELSE PP_createFlamingo(m)

\* spawnNextFlamingo()
PP_spawnNextFlamingo(m) ==
    IF m.activeFlamingoIndex >= Len(FLAMINGO_IDS)
    THEN PP_handleAllMatched(m)
    ELSE PP_createFlamingo(m)

\* destroyActiveFlamingo()
PP_destroyActiveFlamingo(m) ==
    [m EXCEPT !.liveFlamingos = IF m.activeFlamingoSprite # "null" THEN @ - 1 ELSE @,
              !.activeFlamingoSprite = "null"]

\* scene shutdown: every game object, tween and delayed call of the scene
\* is destroyed
PP_shutdown(m) ==
    [m EXCEPT !.liveFlamingos = 0,
              !.swatchInteractive = [c \in FlamingoId |-> FALSE],
              !.spawnTween = FALSE, !.slideTween = FALSE,
              !.finishTimer = FALSE]

\* initState()
PP_initState(m) ==
    [m EXCEPT !.matchState = "Idle",
              !.flamingoQueue = <<>>,
              !.activeFlamingoIndex = 0,
              !.activeFlamingoSprite = "null"]

\* createColorSwatches(): three new swatch sprites, all selectable
PP_createColorSwatches(m) ==
    [m EXCEPT !.swatchInteractive = [c \in FlamingoId |-> TRUE]]

\* buildFlamingoQueue() when the shuffle gives order
PP_buildFlamingoQueue(m, order) ==
    [m EXCEPT !.flamingoQueue =
        [i \in 1..Len(order) |-> [id |-> order[i], targetColorId |-> order[i]]]]

\* create() of a new activation: initState, createColorSwatches,
\* buildFlamingoQueue, spawnNextFlamingo
PP_create(m, order) ==
    PP_spawnNextFlamingo(
        PP_buildFlamingoQueue(
            PP_createColorSwatches(
                [PP_initState(m) EXCEPT !.matches = 0, !.wins = 0, !.popups = 0]),
            order))

\* the guards of handleColorClick
PP_clickIgnored == pp.matchState # "Idle" \/ pp.activeFlamingoSprite = "null"

\* handleCorrectMatch(swatch)
PP_handleCorrectMatch(m) ==
    IF m.activeFlamingoSprite = "null" THEN m
    ELSE [m EXCEPT !.matchState = "Animating", !.slideTween = TRUE,
                   !.matches = @ + 1]

\* a handleWrongMatch() that waits for an animation as the correct match does
PP_handleWrongMatch_lock(m) == [m EXCEPT !.matchState = "Animating"]

\* handleWrongMatch(): the try-again toast only
PP_handleWrongMatch(m) == m

\* handleColorClick(swatch): pointerdown on an interactive swatch sprite
PP_handleColorClick(c) ==
    /\ scene = "PinkParents"
    /\ pp.swatchInteractive[c]
    /\ IF PP_clickIgnored
       THEN /\ pp' = pp
            /\ ev' = [op |-> "handleColorClick", arg |-> c, fx |-> "none"]
       ELSE IF c = pp.flamingoQueue[pp.activeFlamingoIndex + 1].targetColorId
       THEN /\ pp' = PP_handleCorrectMatch(pp)
            /\ ev' = [op |-> "handleColorClick", arg |-> c, fx |-> "toastCorrect"]
       ELSE /\ pp' = PP_handleWrongMatch(pp)
            /\ ev' = [op |-> "handleColorClick", arg |-> c, fx |-> "toastTryAgain"]
    /\ UNCHANGED <<app, scene, popup, pf, mp, cf, ce>>

\* onComplete of the slide-in tween of spawnNextFlamingo()
PP_spawnComplete ==
    /\ scene = "PinkParents"
    /\ pp.spawnTween
    /\ pp' = [pp EXCEPT !.spawnTween = FALSE, !.matchState = "Idle"]
    /\ ev' = [op |-> "spawnComplete", arg |-> "-", fx |-> "none"]
    /\ UNCHANGED <<app, scene, popup, pf, mp, cf, ce>>

\* the fields after the slide-out: destroyActiveFlamingo(),
\* activeFlamingoIndex++
PP_afterSlide(m) ==
    [PP_destroyActiveFlamingo(m) EXCEPT !.slideTween = FALSE,
                                        !.activeFlamingoIndex = @ + 1]

\* onComplete of the slide-out tween: cleanup and spawnNextFlamingo()
PP_slideComplete ==
    /\ scene = "PinkParents"
    /\ pp.slideTween
    /\ pp' = PP_spawnNextFlamingo(PP_afterSlide(pp))
    /\ ev' = [op |-> "slideComplete", arg |-> "-",
              fx |-> IF pp'.matchState = "Finished" THEN "celebration" ELSE "none"]
    /\ UNCHANGED <<app, scene, popup, pf, mp, cf, ce>>

\* the FINISH_POPUP_DELAY timer of handleAllMatched() fires: showPopup(...)
PP_showPopup ==
    /\ scene = "PinkParents"
    /\ pp.finishTimer
    /\ pp' = [pp EXCEPT !.finishTimer = FALSE, !.popups = @ + 1]
    /\ popup' = "shown"
    /\ ev' = [op |-> "showPopup", arg |-> "-", fx |-> "none"]
    /\ UNCHANGED <<app, scene, pf, mp, cf, ce>>

\* "Play Again": dismissPopup(), then scene.restart() -> shutdown + create()
PP_playAgain ==
    /\ scene = "PinkParents"
    /\ popup = "shown"
    /\ popup' = "none"
    /\ \E order \in Shuffle(FLAMINGO_IDS) : pp' = PP_create(PP_shutdown(pp), order)
    /\ ev' = [op |-> "restart", arg |-> "-", fx |-> "playAgain"]
    /\ UNCHANGED <<app, scene, pf, mp, cf, ce>>

\* switchScene(PinkParents) while the scene is active: stop, then start
PP_switchScene ==
    /\ scene = "PinkParents"
    /\ popup' = "none"
    /\ \E order \in Shuffle(FLAMINGO_IDS) : pp' = PP_create(PP_shutdown(pp), order)
    /\ ev' = [op |-> "restart", arg |-> "-", fx |-> "switchScene"]
    /\ UNCHANGED <<app, scene, pf, mp, cf, ce>>

FlamingoNext ==
    \/ \E c \in FlamingoId : PP_handleColorClick(c)
    \/ PP_spawnComplete
    \/ PP_slideComplete
    \/ PP_showPopup
    \/ PP_playAgain
    \/ PP_switchScene

(***************************************************************************)
(* CatchFishScene (fish spawn around the bird)                             *)
(***************************************************************************)
TARGET_CATCH == 10
FISH_MIN_SPACING == 90
FISH_SPAWN_MAX_ATTEMPTS == 15
FISH_SPAWN_X_MARGIN == 60
FISH_SPAWN_Y_MIN == 220
GAME_WIDTH == 480
GAME_HEIGHT == 854
BIRD_CENTER_Y == 480

\* number of fish objects that exist at the same time, destroyed ones whose
\* callbacks are still pending included
MaxFish == 2

FishId == 1..MaxFish

\* Phaser.Math.Clamp
Clamp(v, lo, hi) == IF v < lo THEN lo ELSE IF v > hi THEN hi ELSE v

\* the offsets (cos(angle) * dist, sin(angle) * dist) the spawn loop draws,
\* dist in FISH_SPAWN_RADIUS_MIN..FISH_SPAWN_RADIUS_MAX
SpawnOffsets == {<<100, 0>>, <<200, 0>>, <<-100, 0>>, <<0, 150>>}

\* the clamped candidate position of one attempt of spawnFish()
Candidate(off) ==
    <<Clamp(GAME_WIDTH \div 2 + off[1], FISH_SPAWN_X_MARGIN,
            GAME_WIDTH - FISH_SPAWN_X_MARGIN),
      Clamp(BIRD_CENTER_Y + off[2], FISH_SPAWN_Y_MIN, GAME_HEIGHT - 60)>>

Candidates == {Candidate(off) : off \in SpawnOffsets}

NoPos == <<0, 0>>

\* a slot that holds no fish object
NoFish ==
    [used |-> FALSE, active |-> FALSE, interactive |-> FALSE, pos |-> NoPos,
     lifeTimer |-> FALSE, fades |-> 0, catches |-> 0, escapes |-> 0]

\* the fish created by spawnFish() at position p.  catches and escapes are
\* history fields: how often catchFish / escapeFish passed their guards
NewFish(p) ==
    [used |-> TRUE, active |-> TRUE, interactive |-> TRUE, pos |-> p,
     lifeTimer |-> TRUE, fades |-> 0, catches |-> 0, escapes |-> 0]

\* create(): the fields at scene creation, startSpawning() included.
\* History fields: wins and popups count the runs of handleWin() and of
\* showPopup() in this activation
CF_Fresh ==
    [caughtCount |-> 0, activeFish |-> <<>>, isGameOver |-> FALSE,
     spawnTimers |-> 1, finishTimer |-> FALSE,
     fish |-> [f \in FishId |-> NoFish],
     wins |-> 0, popups |-> 0]

\* field initialisers of the class: the scene before its first create()
CF_Unborn == [CF_Fresh EXCEPT !.spawnTimers = 0]

InList(c, f) == \E i \in 1..Len(c.activeFish) : c.activeFish[i] = f

\* an isOverlappingFish() that compares the squared distance with the
\* spacing itself
CF_isOverlappingFish_unsquared(c, p) ==
    \E i \in 1..Len(c.activeFish) :
        LET fi == c.fish[c.activeFish[i]]
            dx == fi.pos[1] - p[1]
            dy == fi.pos[2] - p[2]
        IN  /\ fi.active
            /\ dx * dx + dy * dy < FISH_MIN_SPACING

\* isOverlappingFish(x, y)
CF_isOverlappingFish(c, p) ==
    \E i \in 1..Len(c.activeFish) :
        LET fi == c.fish[c.activeFish[i]]
            dx == fi.pos[1] - p[1]
            dy == fi.pos[2] - p[2]
        IN  /\ fi.active
            /\ dx * dx + dy * dy < FISH_MIN_SPACING * FISH_MIN_SPACING

\* removeFishFromActive(fish)
CF_removeFishFromActive(c, f) ==
    [c EXCEPT !.activeFish = SelectSeq(@, LAMBDA g : g # f)]

\* a fish object is dropped once it is destroyed and no callback refers to it
Collect(c) ==
    [c EXCEPT !.fish = [f \in FishId |->
        IF c.fish[f].used /\ ~c.fish[f].active /\ ~c.fish[f].lifeTimer
           /\ c.fish[f].fades = 0
        THEN NoFish ELSE c.fish[f]]]

FreeSlots(c) == {f \in FishId : ~c.fish[f].used}

LowestFree(c) == CHOOSE f \in FreeSlots(c) : \A g \in FreeSlots(c) : f <= g

\* a scheduleNextSpawn() that does not look at isGameOver
CF_scheduleNextSpawn_always(c) == [c EXCEPT !.spawnTimers = @ + 1]

\* scheduleNextSpawn()
CF_scheduleNextSpawn(c) ==
    IF c.isGameOver THEN c ELSE [c EXCEPT !.spawnTimers = @ + 1]

\* scene shutdown: every fish, tween and delayed call of the scene is
\* destroyed
CF_shutdown(c) ==
    [c EXCEPT !.fish = [f \in FishId |-> NoFish],
              !.spawnTimers = 0,
              !.finishTimer = FALSE]

\* a create() that starts the spawn chain twice
CF_create_startTwice(c) ==
    CF_scheduleNextSpawn(CF_scheduleNextSpawn(
        [c EXCEPT !.caughtCount = 0, !.activeFish = <<>>,
                  !.isGameOver = FALSE, !.wins = 0, !.popups = 0]))

\* create() of a new activation, startSpawning() included
CF_create(c) ==
    CF_scheduleNextSpawn(
        [c EXCEPT !.caughtCount = 0, !.activeFish = <<>>,
                  !.isGameOver = FALSE, !.wins = 0, !.popups = 0])

\* spawnFish() when the attempt loop ended on candidate p without overlap
CF_placeFish(c, p) ==
    LET f == LowestFree(c)
    IN  [c EXCEPT !.fish[f] = NewFish(p), !.activeFish = Append(@, f)]

\* the results of the attempt loop of spawnFish() from attempt number
\* attempt on: the attempt draws one candidate; one without overlap is
\* placed (break), one with overlap leads to the next attempt; after
\* FISH_SPAWN_MAX_ATTEMPTS attempts nothing is placed (if (!placed) return)
RECURSIVE CF_spawnAttempts(_, _)
CF_spawnAttempts(c, attempt) ==
    IF attempt >= FISH_SPAWN_MAX_ATTEMPTS THEN {c}
    ELSE {CF_placeFish(c, p) : p \in {q \in Candidates : ~CF_isOverlappingFish(c, q)}}
         \cup (IF \E q \in Candidates : CF_isOverlappingFish(c, q)
               THEN CF_spawnAttempts(c, attempt + 1) ELSE {})

\* the results of spawnFish()
CF_spawnFish(c) ==
    IF c.isGameOver THEN {c}
    ELSE CF_spawnAttempts(c, 0)

\* the spawn timer fires: spawnFish(), then scheduleNextSpawn()
CF_spawnTimerFires ==
    /\ scene = "CatchFish"
    /\ cf.spawnTimers > 0
    /\ FreeSlots(cf) # {}
    /\ \E c \in CF_spawnFish([cf EXCEPT !.spawnTimers = @ - 1]) :
          /\ cf' = CF_scheduleNextSpawn(c)
          /\ ev' = [op |-> "spawnFish", arg |-> Len(c.activeFish) - Len(cf.activeFish),
                    fx |-> "none"]
    /\ UNCHANGED <<app, scene, popup, pf, mp, pp, ce>>

\* a handleWin() that leaves the fish in the active list
CF_handleWin_keepFish(c) ==
    [c EXCEPT !.isGameOver = TRUE,
              !.spawnTimers = IF @ > 0 THEN @ - 1 ELSE @,
              !.finishTimer = TRUE,
              !.wins = @ + 1]

\* handleWin(); spawnTimer.destroy() cancels the timer the field refers to
CF_handleWin(c) ==
    [c EXCEPT !.isGameOver = TRUE,
              !.spawnTimers = IF @ > 0 THEN @ - 1 ELSE @,
              !.fish = [f \in FishId |->
                  IF InList(c, f) /\ c.fish[f].active
                  THEN [c.fish[f] EXCEPT !.fades = @ + 1] ELSE c.fish[f]],
              !.activeFish = <<>>,
              !.finishTimer = TRUE,
              !.wins = @ + 1]

\* catchFish without the game-over guard
CF_catchIgnored_noGameOver(c, f) == ~c.fish[f].active

\* the guards of catchFish
CF_catchIgnored(c, f) == ~c.fish[f].active \/ c.isGameOver

\* catchFish without fish.disableInteractive()
CF_catchBody_stillInteractive(c, f) ==
    [CF_removeFishFromActive(c, f) EXCEPT
        !.fish[f].fades = @ + 1,
        !.fish[f].catches = @ + 1,
        !.caughtCount = @ + 1]

\* the body of catchFish(fish) up to the win check
CF_catchBody(c, f) ==
    [CF_removeFishFromActive(c, f) EXCEPT
        !.fish[f].interactive = FALSE,
        !.fish[f].fades = @ + 1,
        !.fish[f].catches = @ + 1,
        !.caughtCount = @ + 1]

\* catchFish(fish)
CF_catchFish(c, f) ==
    IF CF_catchIgnored(c, f) THEN c
    ELSE IF CF_catchBody(c, f).caughtCount >= TARGET_CATCH
         THEN CF_handleWin(CF_catchBody(c, f))
         ELSE CF_catchBody(c, f)

\* pointerdown on fish f; Phaser delivers it to input-enabled objects only
CF_pointerDown(f) ==
    /\ scene = "CatchFish"
    /\ cf.fish[f].used /\ cf.fish[f].active /\ cf.fish[f].interactive
    /\ cf' = CF_catchFish(cf, f)
    /\ ev' = [op |-> "catchFish", arg |-> f,
              fx |-> IF CF_catchIgnored(cf, f) THEN "none"
                     ELSE IF cf'.isGameOver THEN "win" ELSE "toastIncrease"]
    /\ UNCHANGED <<app, scene, popup, pf, mp, pp, ce>>

\* an escapeFish() that fades the fish out but leaves it in the active list
CF_escapeFish_keepListed(c, f) ==
    IF ~c.fish[f].active THEN c
    ELSE [c EXCEPT
            !.fish[f].interactive = FALSE,
            !.fish[f].fades = @ + 1,
            !.fish[f].escapes = @ + 1]

\* escapeFish(fish)
CF_escapeFish(c, f) ==
    IF ~c.fish[f].active THEN c
    ELSE [CF_removeFishFromActive(c, f) EXCEPT
            !.fish[f].interactive = FALSE,
            !.fish[f].fades = @ + 1,
            !.fish[f].escapes = @ + 1]

\* the FISH_LIFETIME timer of fish f fires
CF_lifetimeFires(f) ==
    /\ scene = "CatchFish"
    /\ cf.fish[f].lifeTimer
    /\ LET c == [cf EXCEPT !.fish[f].lifeTimer = FALSE]
       IN  cf' = Collect(IF c.fish[f].active THEN CF_escapeFish(c, f) ELSE c)
    /\ ev' = [op |-> "lifetime", arg |-> f,
              fx |-> IF cf.fish[f].active THEN "escape" ELSE "none"]
    /\ UNCHANGED <<app, scene, popup, pf, mp, pp, ce>>

\* onComplete of a fade-out tween of fish f: fish.destroy()
CF_fadeComplete(f) ==
    /\ scene = "CatchFish"
    /\ cf.fish[f].fades > 0
    /\ cf' = Collect([cf EXCEPT !.fish[f].fades = @ - 1,
                                !.fish[f].active = FALSE,
                                !.fish[f].interactive = FALSE])
    /\ ev' = [op |-> "destroy", arg |-> f, fx |-> "none"]
    /\ UNCHANGED <<app, scene, popup, pf, mp, pp, ce>>

\* the FINISH_POPUP_DELAY timer of handleWin() fires: showPopup(...)
CF_showPopup ==
    /\ scene = "CatchFish"
    /\ cf.finishTimer
    /\ cf' = [cf EXCEPT !.finishTimer = FALSE, !.popups = @ + 1]
    /\ popup' = "shown"
    /\ ev' = [op |-> "showPopup", arg |-> 0, fx |-> "none"]
    /\ UNCHANGED <<app, scene, pf, mp, pp, ce>>

\* "Play Again": dismissPopup(), then scene.restart() -> shutdown + create()
CF_playAgain ==
    /\ scene = "CatchFish"
    /\ popup = "shown"
    /\ popup' = "none"
    /\ cf' = CF_create(CF_shutdown(cf))
    /\ ev' = [op |-> "restart", arg |-> 0, fx |-> "playAgain"]
    /\ UNCHANGED <<app, scene, pf, mp, pp, ce>>

\* switchScene(CatchFish) while the scene is active: stop, then start
CF_switchScene ==
    /\ scene = "CatchFish"
    /\ popup' = "none"
    /\ cf' = CF_create(CF_shutdown(cf))
    /\ ev' = [op |-> "restart", arg |-> 0, fx |-> "switchScene"]
    /\ UNCHANGED <<app, scene, pf, mp, pp, ce>>

CatchNext ==
    \/ CF_spawnTimerFires
    \/ \E f \in FishId : CF_pointerDown(f)
    \/ \E f \in FishId : CF_lifetimeFires(f)
    \/ \E f \in FishId : CF_fadeComplete(f)
    \/ CF_showPopup
    \/ CF_playAgain
    \/ CF_switchScene

(***************************************************************************)
(* CountEggScene                                                           *)
(***************************************************************************)
DEFAULT_CORRECT_ANSWER == <<"4">>
INPUT_MAX_LENGTH == 10

\* the keys of the virtual keyboard that are pressed: one of the ten digit
\* keys, the separator and the delete key
Digits == {"4"}
SEPARATOR == ","
BACKSPACE == "backspace"
KeyboardKeys == Digits \cup {SEPARATOR, BACKSPACE}

\* values of the total_egg query parameter in the URL: <<>> when it is
\* absent or empty, a number, and a value that is no number
QueryParams == {<<>>, <<"4", "4">>, <<"x">>}

\* delayed calls of one kind (flash timers, popup timers) pending at once
MaxPending == 2

\* getQueryParam('total_egg') of the base scene, documented as the utility
\* "for reading URL query parameters": the value as it stands in the URL,
\* <<>> for the falsy results (null when absent, the empty string)
CE_getQueryParam(param) == param

\* getQueryParam('total_egg') || DEFAULT_CORRECT_ANSWER
CE_correctAnswer(param) ==
    IF CE_getQueryParam(param) = <<>> THEN DEFAULT_CORRECT_ANSWER
    ELSE CE_getQueryParam(param)

\* field initialisers of the class: the scene before its first create().
\* fading counts closed overlay containers whose fade-out tween is running;
\* tint is the red tint of the input field of the open overlay; popups is a
\* history field: the runs of showPopup() in this activation; param is a
\* history field: the total_egg value of the URL the activation started with
CE_Unborn ==
    [inputValue |-> <<>>,
     param |-> <<>>,
     overlayContainer |-> "null",
     isErrorFlashing |-> FALSE,
     tint |-> FALSE,
     correctAnswer |-> DEFAULT_CORRECT_ANSWER,
     fading |-> 0,
     flashTimers |-> 0,
     popupTimers |-> 0,
     popups |-> 0]

\* scene shutdown: every game object, tween and delayed call of the scene
\* is destroyed
CE_shutdown(c) ==
    [c EXCEPT !.fading = 0, !.flashTimers = 0, !.popupTimers = 0,
              !.tint = FALSE]

\* create() of a new activation
CE_create(c, param) ==
    [c EXCEPT !.inputValue = <<>>,
              !.overlayContainer = "null",
              !.isErrorFlashing = FALSE,
              !.correctAnswer = CE_correctAnswer(param),
              !.param = param,
              !.popups = 0]

\* an openOverlay() that keeps the input and the flag of the last overlay
CE_openOverlay_keepInput(c) ==
    IF c.overlayContainer # "null" THEN c
    ELSE [c EXCEPT !.tint = FALSE,
                   !.overlayContainer = "open"]

\* openOverlay()
CE_openOverlay(c) ==
    IF c.overlayContainer # "null" THEN c
    ELSE [c EXCEPT !.inputValue = <<>>,
                   !.isErrorFlashing = FALSE,
                   !.tint = FALSE,
                   !.overlayContainer = "open"]

\* closeOverlay(): the container fades out and is destroyed afterwards
CE_closeOverlay(c) ==
    IF c.overlayContainer = "null" THEN c
    ELSE [c EXCEPT !.overlayContainer = "null",
                   !.tint = FALSE,
                   !.fading = @ + 1]

\* inputValue.includes(',')
CE_includes(v, key) == \E i \in 1..Len(v) : v[i] = key

\* the new input value computed by handleKeyPress(key)
CE_applyKey(v, key) ==
    IF key = BACKSPACE
    THEN (IF Len(v) = 0 THEN v ELSE SubSeq(v, 1, Len(v) - 1))
    ELSE IF key = SEPARATOR
    THEN (IF Len(v) < INPUT_MAX_LENGTH /\ ~CE_includes(v, SEPARATOR)
          THEN Append(v, key) ELSE v)
    ELSE (IF Len(v) < INPUT_MAX_LENGTH THEN Append(v, key) ELSE v)

\* the guard of handleKeyPress
CE_keyIgnored(c) == c.isErrorFlashing

\* handleKeyPress(key)
CE_handleKeyPress(c, key) ==
    IF CE_keyIgnored(c) THEN c
    ELSE [c EXCEPT !.inputValue = CE_applyKey(@, key), !.tint = FALSE]

\* handleCorrectAnswer(): closeOverlay() and the 300 ms popup timer
CE_handleCorrectAnswer(c) ==
    [CE_closeOverlay(c) EXCEPT !.popupTimers = @ + 1]

\* a handleWrongAnswer() that also clears the input
CE_handleWrongAnswer_clearInput(c) ==
    [c EXCEPT !.isErrorFlashing = TRUE,
              !.inputValue = <<>>,
              !.tint = c.overlayContainer # "null",
              !.flashTimers = @ + 1]

\* handleWrongAnswer(): the flag, the red tint and the 600 ms flash timer
CE_handleWrongAnswer(c) ==
    [c EXCEPT !.isErrorFlashing = TRUE,
              !.tint = c.overlayContainer # "null",
              !.flashTimers = @ + 1]

\* a comparison that skips the separators of the input
CE_isCorrect_ignoreSeparator(c) ==
    SelectSeq(c.inputValue, LAMBDA k : k # SEPARATOR) = c.correctAnswer

\* this.inputValue === this.correctAnswer
CE_isCorrect(c) == c.inputValue = c.correctAnswer

\* a handleSubmit() without the guard on the running flash
CE_submitOutcome_noDebounce(c) ==
    IF Len(c.inputValue) = 0 THEN "empty"
    ELSE IF CE_isCorrect(c) THEN "correct"
    ELSE "wrong"

\* the branch handleSubmit() takes
CE_submitOutcome(c) ==
    IF c.isErrorFlashing THEN "flashing"
    ELSE IF Len(c.inputValue) = 0 THEN "empty"
    ELSE IF CE_isCorrect(c) THEN "correct"
    ELSE "wrong"

\* handleSubmit()
CE_handleSubmit(c) ==
    CASE CE_submitOutcome(c) = "correct" -> CE_handleCorrectAnswer(c)
      [] CE_submitOutcome(c) = "wrong" -> CE_handleWrongAnswer(c)
      [] OTHER -> c

\* the buttons of an overlay container receive pointer events while the
\* container exists (open, or closed and still fading out) and no popup
\* covers it
CE_overlayReachable == popup = "none" /\ (ce.overlayContainer # "null" \/ ce.fading > 0)

\* pointerup on the "Submit Answer" button of the static UI, which lies
\* under the input blocker of every overlay container and of the popup
CE_pressOpen ==
    /\ scene = "CountEgg"
    /\ popup = "none" /\ ce.overlayContainer = "null" /\ ce.fading = 0
    /\ ce' = CE_openOverlay(ce)
    /\ ev' = [op |-> "openOverlay", arg |-> "-", fx |-> "none"]
    /\ UNCHANGED <<app, scene, popup, pf, mp, pp, cf>>

\* pointerup on the Cancel button of the overlay
CE_pressCancel ==
    /\ scene = "CountEgg"
    /\ CE_overlayReachable
    /\ ce' = CE_closeOverlay(ce)
    /\ ev' = [op |-> "closeOverlay", arg |-> "-", fx |-> "none"]
    /\ UNCHANGED <<app, scene, popup, pf, mp, pp, cf>>

\* pointerup on a key of the virtual keyboard
CE_pressKey(key) ==
    /\ scene = "CountEgg"
    /\ CE_overlayReachable
    /\ ce' = CE_handleKeyPress(ce, key)
    /\ ev' = [op |-> "handleKeyPress", arg |-> key, fx |-> "none"]
    /\ UNCHANGED <<app, scene, popup, pf, mp, pp, cf>>

\* pointerup on the Submit button of the overlay
CE_pressSubmit ==
    /\ scene = "CountEgg"
    /\ CE_overlayReachable
    /\ CE_submitOutcome(ce) = "wrong" => ce.flashTimers < MaxPending
    /\ CE_submitOutcome(ce) = "correct" => ce.popupTimers < MaxPending
    /\ ce' = CE_handleSubmit(ce)
    /\ ev' = [op |-> "handleSubmit", arg |-> CE_submitOutcome(ce),
              fx |-> IF ce'.tint THEN "flashRed" ELSE "none"]
    /\ UNCHANGED <<app, scene, popup, pf, mp, pp, cf>>

\* an ERROR_FLASH_DURATION timer of handleWrongAnswer() fires
CE_flashTimerFires ==
    /\ scene = "CountEgg"
    /\ ce.flashTimers > 0
    /\ ce' = [ce EXCEPT !.flashTimers = @ - 1,
                        !.tint = FALSE,
                        !.isErrorFlashing = FALSE]
    /\ ev' = [op |-> "flashTimer", arg |-> "-", fx |-> "none"]
    /\ UNCHANGED <<app, scene, popup, pf, mp, pp, cf>>

\* onComplete of the fade-out tween of closeOverlay(): container.destroy()
CE_fadeComplete ==
    /\ scene = "CountEgg"
    /\ ce.fading > 0
    /\ ce' = [ce EXCEPT !.fading = @ - 1]
    /\ ev' = [op |-> "destroy", arg |-> "-", fx |-> "none"]
    /\ UNCHANGED <<app, scene, popup, pf, mp, pp, cf>>

\* a 300 ms timer of handleCorrectAnswer() fires: uiManager.showPopup(...)
CE_showPopup ==
    /\ scene = "CountEgg"
    /\ ce.popupTimers > 0
    /\ ce' = [ce EXCEPT !.popupTimers = @ - 1, !.popups = @ + 1]
    /\ popup' = "shown"
    /\ ev' = [op |-> "showPopup", arg |-> "-", fx |-> "none"]
    /\ UNCHANGED <<app, scene, pf, mp, pp, cf>>

\* "Play Again": dismissPopup(), then scene.restart() -> shutdown + create()
CE_playAgain ==
    /\ scene = "CountEgg"
    /\ popup = "shown"
    /\ popup' = "none"
    /\ \E param \in QueryParams : ce' = CE_create(CE_shutdown(ce), param)
    /\ ev' = [op |-> "restart", arg |-> "-", fx |-> "playAgain"]
    /\ UNCHANGED <<app, scene, pf, mp, pp, cf>>

\* switchScene(CountEgg) while the scene is active: stop, then start
CE_switchScene ==
    /\ scene = "CountEgg"
    /\ popup' = "none"
    /\ \E param \in QueryParams : ce' = CE_create(CE_shutdown(ce), param)
    /\ ev' = [op |-> "restart", arg |-> "-", fx |-> "switchScene"]
    /\ UNCHANGED <<app, scene, pf, mp, pp, cf>>

CountEggNext ==
    \/ CE_pressOpen
    \/ CE_pressCancel
    \/ \E key \in KeyboardKeys : CE_pressKey(key)
    \/ CE_pressSubmit
    \/ CE_flashTimerFires
    \/ CE_fadeComplete
    \/ CE_showPopup
    \/ CE_playAgain
    \/ CE_switchScene

(***************************************************************************)
(* Router, GameController, Phaser's scene manager and BaseScene            *)
(***************************************************************************)
\* the game scenes GameController.registerScenes() adds (all BaseScenes)
SceneKeys == {"PaddleFood", "MatchPenguin", "PinkParents", "CatchFish", "CountEgg"}

\* every key registered with game.scene.add(), the inline MenuScene included
RegisteredKeys == {"Menu"} \cup SceneKeys

\* ROUTE_TABLE of Config.  A pathname is the sequence of its "/" characters
\* and its segments
ROUTE_TABLE ==
    << [path |-> <<"/", "match-penguin">>, sceneKey |-> "MatchPenguin"],
       [path |-> <<"/", "catch-fish">>,    sceneKey |-> "CatchFish"],
       [path |-> <<"/", "paddle-food">>,   sceneKey |-> "PaddleFood"],
       [path |-> <<"/", "pink-parents">>,  sceneKey |-> "PinkParents"] >>

\* the path segments window.location.pathname is drawn from
Segments ==
    {"match-penguin", "catch-fish", "paddle-food", "pink-parents",
     "count-egg", "x"}

\* the values of window.location.pathname
Pathnames ==
    {<<"/">>, <<"/", "/", "catch-fish">>, <<"/", "catch-fish", "/", "x">>}
    \cup {<<"/", n>> : n \in Segments}
    \cup {<<"/", n, "/">> : n \in Segments}
    \cup {<<"/", n, "/", "/">> : n \in Segments}

\* pathname.replace(/\/+$/, '')
RECURSIVE RT_stripSlashes(_)
RT_stripSlashes(p) ==
    IF p # <<>> /\ p[Len(p)] = "/"
    THEN RT_stripSlashes(SubSeq(p, 1, Len(p) - 1))
    ELSE p

\* pathname.replace(/\/+$/, '') || '/'
RT_normalize(p) ==
    IF RT_stripSlashes(p) = <<>> THEN <<"/">> ELSE RT_stripSlashes(p)

\* findRoute(pathname): the scene key of the first entry whose path is the
\* normalized pathname, "undefined" without one
RT_findRoute(p) ==
    LET hits == {i \in 1..Len(ROUTE_TABLE) : ROUTE_TABLE[i].path = RT_normalize(p)}
    IN  IF hits = {} THEN "undefined"
        ELSE ROUTE_TABLE[CHOOSE i \in hits : \A j \in hits : i <= j].sceneKey

\* resolve(): the key it returns and stores in currentSceneKey
RT_resolve(p) ==
    IF RT_findRoute(p) # "undefined" THEN RT_findRoute(p) ELSE "Menu"

\* field initialisers of BaseScene, with the listeners the scene has
\* registered on window ('resize') and on its own events ('shutdown'), the
\* popup of its UIManager and the tap zones of its InputManager
BS_Unborn ==
    [resizeHandler |-> FALSE, resizeListeners |-> 0, shutdownListeners |-> 0,
     landscapeOverlay |-> FALSE, activePopup |-> FALSE, tapZones |-> 0]

\* hideLandscapeWarning()
BS_hideLandscapeWarning(b) == [b EXCEPT !.landscapeOverlay = FALSE]

\* checkOrientation()
BS_checkOrientation(b, isLandscape) ==
    IF isLandscape /\ ~b.landscapeOverlay
    THEN [b EXCEPT !.landscapeOverlay = TRUE]
    ELSE IF ~isLandscape /\ b.landscapeOverlay
         THEN BS_hideLandscapeWarning(b)
         ELSE b

\* setupOrientationCheck()
BS_setupOrientationCheck(b, isLandscape) ==
    [BS_checkOrientation(b, isLandscape) EXCEPT
        !.resizeHandler = TRUE,
        !.resizeListeners = @ + 1]

\* create() of scene k: BaseScene.create() with its new UIManager and
\* InputManager, then the subclass part (createTapZones() in PaddleFood)
BS_create(b, isLandscape, k) ==
    [BS_setupOrientationCheck([b EXCEPT !.activePopup = FALSE, !.tapZones = 0],
                              isLandscape) EXCEPT
        !.shutdownListeners = @ + 1,
        !.tapZones = IF k = "PaddleFood" THEN 2 ELSE 0]

\* an onShutdown() that forgets the handler without removing it from window
BS_onShutdown_keepListener(b) ==
    [BS_hideLandscapeWarning(b) EXCEPT
        !.activePopup = FALSE,
        !.tapZones = 0,
        !.resizeHandler = FALSE,
        !.shutdownListeners = 0]

\* onShutdown(): uiManager.destroy() (dismissPopup), inputManager.destroy(),
\* hideLandscapeWarning(), removeEventListener of the stored handler,
\* events.off('shutdown', ...)
BS_onShutdown(b) ==
    [BS_hideLandscapeWarning(b) EXCEPT
        !.activePopup = FALSE,
        !.tapZones = 0,
        !.resizeListeners = IF b.resizeHandler /\ @ > 0 THEN @ - 1 ELSE @,
        !.resizeHandler = FALSE,
        !.shutdownListeners = 0]

\* the scene's 'shutdown' event reaches the listeners registered for it
PH_emitShutdown(b) == IF b.shutdownListeners > 0 THEN BS_onShutdown(b) ELSE b

\* the application before GameController.startInitialScene().  calls is a
\* history field: the scene manager calls of the last switchScene()
AppBoot ==
    [pathname |-> <<"/">>, currentSceneKey |-> "Menu",
     status |-> [k \in RegisteredKeys |-> "stopped"],
     calls |-> <<>>, isLandscape |-> FALSE,
     bs |-> [k \in SceneKeys |-> BS_Unborn]]

\* game.scene.stop(k): a scene that is not shut down is shut down
PH_stop(a, k) ==
    IF a.status[k] = "stopped" THEN a
    ELSE [a EXCEPT
            !.status[k] = "stopped",
            !.bs = IF k \in SceneKeys
                   THEN [@ EXCEPT ![k] = PH_emitShutdown(@)] ELSE @]

\* the scene manager runs create() of scene k
PH_create(a, k) ==
    [a EXCEPT
        !.status[k] = "running",
        !.bs = IF k \in SceneKeys
               THEN [@ EXCEPT ![k] = BS_create(@, a.isLandscape, k)] ELSE @]

\* game.scene.start(k): a running scene is shut down first; a scene with a
\* preload() either waits for its loader or, its textures cached, is
\* created at once
PH_start(a, k) ==
    {PH_create(PH_stop(a, k), k)}
    \cup (IF k \in SceneKeys
          THEN {[PH_stop(a, k) EXCEPT !.status[k] = "loading"]} ELSE {})

\* a switchScene() that does not stop the scene that was active
GC_switchScene_keepPrevious(a, active, key) ==
    LET a1 == [a EXCEPT !.calls = <<>>]
        a2 == IF a1.status[key] = "running"
              THEN [PH_stop(a1, key) EXCEPT !.calls = Append(@, <<"stop", key>>)]
              ELSE a1
    IN  {[a3 EXCEPT !.calls = Append(@, <<"start", key>>)] : a3 \in PH_start(a2, key)}

\* switchScene(key) with activeSceneKey = active: the results
GC_switchScene(a, active, key) ==
    LET a1 == IF active # "null" /\ active # key
              THEN [PH_stop(a, active) EXCEPT !.calls = <<<<"stop", active>>>>]
              ELSE [a EXCEPT !.calls = <<>>]
        a2 == IF a1.status[key] = "running"
              THEN [PH_stop(a1, key) EXCEPT !.calls = Append(@, <<"stop", key>>)]
              ELSE a1
    IN  {[a3 EXCEPT !.calls = Append(@, <<"start", key>>)] : a3 \in PH_start(a2, key)}

\* startInitialScene(): resolve(), then switchScene()
GC_startInitialScene ==
    /\ scene = "null"
    /\ LET key == RT_resolve(app.pathname)
       IN  /\ \E a \in GC_switchScene([app EXCEPT !.currentSceneKey = key], scene, key) :
                 app' = a
           /\ scene' = key
           /\ ev' = [op |-> "startInitialScene", arg |-> app.pathname, fx |-> key]
    /\ UNCHANGED <<popup, pf, mp, pp, cf, ce>>

\* back / forward in the browser moves to a history entry with pathname p:
\* handlePopState() -> resolve(), onRouteChange -> switchScene()
RT_handlePopState(p) ==
    /\ scene # "null"
    /\ LET key == RT_resolve(p)
       IN  /\ \E a \in GC_switchScene([app EXCEPT !.pathname = p,
                                                  !.currentSceneKey = key],
                                      scene, key) :
                 app' = a
           /\ scene' = key
           /\ ev' = [op |-> "popstate", arg |-> p, fx |-> key]
    /\ UNCHANGED <<popup, pf, mp, pp, cf, ce>>

\* pointerup on the menu button of route i: navigate(path) -> pushState,
\* onRouteChange -> switchScene()
RT_navigate(i) ==
    /\ scene = "Menu"
    /\ app.status["Menu"] = "running"
    /\ LET path == ROUTE_TABLE[i].path
           key == RT_findRoute(path)
       IN  /\ key # "undefined"
           /\ \E a \in GC_switchScene([app EXCEPT !.pathname = path,
                                                  !.currentSceneKey = key],
                                      scene, key) :
                 app' = a
           /\ scene' = key
           /\ ev' = [op |-> "navigate", arg |-> path, fx |-> key]
    /\ UNCHANGED <<popup, pf, mp, pp, cf, ce>>

\* the loader of scene k completes: create() runs
PH_loadComplete(k) ==
    /\ app.status[k] = "loading"
    /\ app' = PH_create(app, k)
    /\ ev' = [op |-> "loadComplete", arg |-> k, fx |-> "none"]
    /\ UNCHANGED <<scene, popup, pf, mp, pp, cf, ce>>

\* the running scene k shows its finish popup: uiManager.showPopup(...)
BS_showPopup(k) ==
    /\ app.status[k] = "running"
    /\ ~app.bs[k].activePopup
    /\ ~app.bs[k].landscapeOverlay
    /\ app' = [app EXCEPT !.bs[k].activePopup = TRUE]
    /\ ev' = [op |-> "showPopup", arg |-> k, fx |-> "none"]
    /\ UNCHANGED <<scene, popup, pf, mp, pp, cf, ce>>

\* "Play Again" of the popup of scene k: this.scene.restart()
BS_restart(k) ==
    /\ app.status[k] = "running"
    /\ app.bs[k].activePopup
    /\ \E a \in PH_start(app, k) : app' = a
    /\ ev' = [op |-> "restart", arg |-> k, fx |-> "playAgain"]
    /\ UNCHANGED <<scene, popup, pf, mp, pp, cf, ce>>

\* the window is resized (the device rotated): every registered resize
\* listener runs checkOrientation() of its scene
WIN_resize(isLandscape) ==
    /\ scene # "null"
    /\ isLandscape # app.isLandscape
    /\ app' = [app EXCEPT
                  !.isLandscape = isLandscape,
                  !.bs = [k \in SceneKeys |->
                            IF app.bs[k].resizeListeners > 0
                            THEN BS_checkOrientation(app.bs[k], isLandscape)
                            ELSE app.bs[k]]]
    /\ ev' = [op |-> "resize", arg |-> isLandscape, fx |-> "none"]
    /\ UNCHANGED <<scene, popup, pf, mp, pp, cf, ce>>

(***************************************************************************)
(* Specification                                                           *)
(***************************************************************************)
\* one game scene is running; routing and the scene manager stay as at boot
Init ==
    /\ scene \in SceneKeys
    /\ app = AppBoot
    /\ ev = NoEv
    /\ popup = "none"
    /\ pf = PaddleFresh
    /\ IF scene = "MatchPenguin"
       THEN \E order \in Shuffle(PENGUIN_IDS) : mp = MP_create(MP_Unborn, order)
       ELSE mp = MP_Unborn
    /\ IF scene = "PinkParents"
       THEN \E order \in Shuffle(FLAMINGO_IDS) : pp = PP_create(PP_Unborn, order)
       ELSE pp = PP_Unborn
    /\ cf = IF scene = "CatchFish" THEN CF_Fresh ELSE CF_Unborn
    /\ IF scene = "CountEgg"
       THEN \E param \in QueryParams : ce = CE_create(CE_Unborn, param)
       ELSE ce = CE_Unborn

Next ==
    \/ PaddleNext
    \/ PenguinNext
    \/ FlamingoNext
    \/ CatchNext
    \/ CountEggNext

Spec == Init /\ [][Next]_vars

(***************************************************************************)
(* One sitting of a matching game: the scene is not switched from outside, *)
(* animations and timers complete, the pointer is released, and the player *)
(* picks the required choice and drops it on the target again and again    *)
(***************************************************************************)
MatchInit == Init /\ scene \in {"MatchPenguin", "PinkParents"}

\* the player starts to drag the baby the active parent requires, the
\* pointer inside the drop area
MP_pickCorrect ==
    \E b \in PenguinId :
        /\ ~MP_dragStartIgnored(b)
        /\ mp.activeParentSprite # "null"
        /\ b = mp.parentQueue[mp.activeParentIndex + 1].targetBabyId
        /\ MP_handleDragStart(b, TRUE)

\* the player releases the required baby over the drop area
MP_dropCorrect == MP_dropOutcome(mp) = "correct" /\ MP_onPointerUp

\* the player selects the swatch the active flamingo requires
PP_clickCorrect ==
    \E c \in FlamingoId :
        /\ ~PP_clickIgnored
        /\ c = pp.flamingoQueue[pp.activeFlamingoIndex + 1].targetColorId
        /\ PP_handleColorClick(c)

MatchPlayNext ==
    \/ \E b \in PenguinId, over \in BOOLEAN : MP_handleDragStart(b, over)
    \/ \E over \in BOOLEAN : MP_onPointerMove(over)
    \/ MP_onPointerUp
    \/ MP_spawnComplete
    \/ MP_snapComplete
    \/ MP_slideComplete
    \/ MP_showPopup
    \/ MP_playAgain
    \/ \E c \in FlamingoId : PP_handleColorClick(c)
    \/ PP_spawnComplete
    \/ PP_slideComplete
    \/ PP_showPopup
    \/ PP_playAgain

MatchFairness ==
    /\ WF_vars(MP_spawnComplete) /\ WF_vars(MP_snapComplete)
    /\ WF_vars(MP_slideComplete) /\ WF_vars(MP_showPopup)
    /\ WF_vars(MP_onPointerUp)
    /\ SF_vars(MP_pickCorrect) /\ SF_vars(MP_dropCorrect)
    /\ WF_vars(PP_spawnComplete) /\ WF_vars(PP_slideComplete)
    /\ WF_vars(PP_showPopup)
    /\ SF_vars(PP_clickCorrect)

MatchPlaySpec == MatchInit /\ [][MatchPlayNext]_vars /\ MatchFairness

(***************************************************************************)
(* The catch game with its timers firing: a pending FISH_LIFETIME timer    *)
(* eventually runs its callback                                            *)
(***************************************************************************)
CatchInit == Init /\ scene = "CatchFish"

CatchFairness ==
    \A f \in FishId : WF_vars(CF_lifetimeFires(f))

CatchTimedSpec == CatchInit /\ [][CatchNext]_vars /\ CatchFairness

(***************************************************************************)
(* Routing and scene switching: the page is opened at any pathname in      *)
(* either orientation; the scenes appear through their BaseScene part      *)
(***************************************************************************)
AppInit ==
    /\ scene = "null"
    /\ ev = NoEv
    /\ popup = "none"
    /\ pf = PaddleFresh
    /\ mp = MP_Unborn
    /\ pp = PP_Unborn
    /\ cf = CF_Unborn
    /\ ce = CE_Unborn
    /\ \E p \in Pathnames, l \in BOOLEAN :
          app = [AppBoot EXCEPT !.pathname = p, !.isLandscape = l]

AppNext ==
    \/ GC_startInitialScene
    \/ \E p \in Pathnames : RT_handlePopState(p)
    \/ \E i \in 1..Len(ROUTE_TABLE) : RT_navigate(i)
    \/ \E k \in SceneKeys : PH_loadComplete(k)
    \/ \E k \in SceneKeys : BS_showPopup(k)
    \/ \E k \in SceneKeys : BS_restart(k)
    \/ \E l \in BOOLEAN : WIN_resize(l)

AppSpec == AppInit /\ [][AppNext]_vars

(***************************************************************************)
(* Properties                                                              *)
(***************************************************************************)

\* C1: in both matching games the active target index never decreases
\* within an activation, moves only by the single step that completes a
\* correct match (so it always equals the correct matches judged so far,
\* less the one whose slide-out is still running), and is left alone by a
\* wrong match, a miss and every ignored input.
C1_IndexAdvancesByCorrectMatch ==
    /\ [](/\ mp.activeParentIndex
               + (IF mp.snapTween \/ mp.slideTween THEN 1 ELSE 0) = mp.matches
          /\ pp.activeFlamingoIndex
               + (IF pp.slideTween THEN 1 ELSE 0) = pp.matches)
    /\ [][ev'.op # "restart" =>
            /\ mp'.activeParentIndex >= mp.activeParentIndex
            /\ pp'.activeFlamingoIndex >= pp.activeFlamingoIndex
            /\ mp'.activeParentIndex # mp.activeParentIndex =>
                  /\ ev'.op = "slideComplete"
                  /\ mp'.activeParentIndex = mp.activeParentIndex + 1
            /\ pp'.activeFlamingoIndex # pp.activeFlamingoIndex =>
                  /\ ev'.op = "slideComplete"
                  /\ pp'.activeFlamingoIndex = pp.activeFlamingoIndex + 1
            /\ mp'.matches # mp.matches =>
                  /\ ev'.op = "onPointerUp" /\ ev'.arg = "correct"
                  /\ mp'.matches = mp.matches + 1
            /\ pp'.matches # pp.matches =>
                  /\ ev'.op = "handleColorClick" /\ ev'.fx = "toastCorrect"
                  /\ pp'.matches = pp.matches + 1]_vars

\* a wrong match judged after a correct match has advanced the index
C1_Witness ==
    /\ scene = "MatchPenguin"
    /\ mp.activeParentIndex = 1 /\ mp.matches = 1
    /\ ev.op = "onPointerUp" /\ ev.arg = "wrong"

\* C2: no fish is ever acted on by both catchFish and escapeFish.
C2_CaughtXorEscaped ==
    \A f \in FishId : ~(cf.fish[f].catches > 0 /\ cf.fish[f].escapes > 0)

\* C3: caughtCount stays within 0..TARGET_CATCH and no step of an
\* activation decreases it.
C3_CaughtCountBounded ==
    /\ [](cf.caughtCount \in 0..TARGET_CATCH)
    /\ [][ev'.op # "restart" => cf'.caughtCount >= cf.caughtCount]_vars

\* a tap on a fish that is still fading after the target was reached
C3_Witness ==
    /\ scene = "CatchFish"
    /\ cf.caughtCount = TARGET_CATCH
    /\ ev.op = "catchFish" /\ ev.fx = "none"

\* C4: catchFish acts on a fish at most once, and every step of an
\* activation raises caughtCount by at most one.
C4_CatchAtMostOnce ==
    /\ [](\A f \in FishId : cf.fish[f].catches <= 1)
    /\ [][ev'.op # "restart" => cf'.caughtCount <= cf.caughtCount + 1]_vars

\* a caught fish that is not yet destroyed while the game goes on
C4_Witness ==
    /\ scene = "CatchFish"
    /\ ~cf.isGameOver
    /\ \E f \in FishId : cf.fish[f].catches = 1 /\ cf.fish[f].active

\* C5: expectedSide flips on every accepted tap and on no other step; an
\* accepted tap is never on the side of the previous accepted tap, and the
\* first accepted tap of an activation is on the left.
C5_ExpectedSideAlternates ==
    [][ev'.op # "restart" =>
         LET accepted == /\ scene = "PaddleFood" /\ ev'.op = "onTap"
                         /\ ev'.arg = pf.expectedSide
                         /\ pf.gameState # "Finished" /\ popup # "shown"
         IN  /\ accepted =>
                  /\ pf'.expectedSide # pf.expectedSide
                  /\ pf'.tapCount = pf.tapCount + 1
                  /\ pf.lastAccepted # ev'.arg
                  /\ pf.lastAccepted = "none" => ev'.arg = "left"
             /\ ~accepted =>
                  /\ pf'.expectedSide = pf.expectedSide
                  /\ pf'.tapCount = pf.tapCount]_vars

\* a right tap accepted after a left one
C5_Witness ==
    /\ scene = "PaddleFood"
    /\ pf.tapCount = 2 /\ pf.lastAccepted = "right" /\ pf.expectedSide = "left"

\* C6: progress is always within 0..MAX_PROGRESS.
C6_ProgressInRange == pf.progress \in 0..MAX_PROGRESS

\* the maximum has been reached
C6_Witness == scene = "PaddleFood" /\ pf.progress = MAX_PROGRESS

\* C7: a wrong-side tap changes no field of the paddle controller and
\* shows nothing but the red zone flash.
C7_WrongTapNoPenalty ==
    [][(scene = "PaddleFood" /\ ev'.op = "onTap" /\ ev'.arg # pf.expectedSide) =>
         /\ pf'.progress = pf.progress
         /\ pf'.tapCount = pf.tapCount
         /\ pf'.expectedSide = pf.expectedSide
         /\ pf'.gameState = pf.gameState
         /\ popup' = popup
         /\ ev'.fx = (IF pf.gameState = "Finished" \/ popup = "shown"
                      THEN "none" ELSE "flashRed")]_vars

\* a wrong-side tap after some progress was made
C7_Witness ==
    /\ scene = "PaddleFood"
    /\ ev.op = "onTap" /\ ev.fx = "flashRed"
    /\ pf.progress = 3 * BASE_STEP /\ pf.gameState = "Swimming"

\* C8: the state is Finished exactly from the step in which progress
\* reaches MAX_PROGRESS; from then on taps change nothing until the restart;
\* the win handler and then the modal follow by their own timers.
C8_FinishedFreezesInput ==
    /\ [](scene = "PaddleFood" =>
            /\ pf.gameState = "Finished" <=> pf.progress = MAX_PROGRESS
            /\ (pf.winTimer \/ pf.popupTimer \/ popup = "shown") =>
                  pf.gameState = "Finished"
            /\ ~(pf.winTimer /\ pf.popupTimer)
            /\ popup = "shown" => ~pf.winTimer /\ ~pf.popupTimer)
    /\ [][/\ (scene = "PaddleFood" /\ pf.gameState = "Finished"
                 /\ ev'.op = "onTap") =>
                pf' = pf /\ popup' = popup /\ ev'.fx = "none"
          /\ (scene = "PaddleFood" /\ pf.gameState # "Finished"
                 /\ pf'.gameState = "Finished") =>
                pf'.winTimer /\ ~pf'.popupTimer /\ popup' = "none"
          /\ (scene = "PaddleFood" /\ popup' = "shown" /\ popup # "shown") =>
                ev'.op = "showPopup" /\ pf.popupTimer]_vars

\* a tap ignored after the win, before the win handler has run
C8_Witness ==
    /\ scene = "PaddleFood"
    /\ pf.gameState = "Finished" /\ pf.winTimer
    /\ ev.op = "onTap" /\ ev.fx = "none"

\* C9: a selection made while the state is Animating or Finished changes no
\* field of the matching controller and shows no toast.
C9_SelectionIgnoredWhileBusy ==
    [][/\ (scene = "MatchPenguin" /\ ev'.op = "handleDragStart"
              /\ mp.matchState \in {"Animating", "Finished"}) =>
             mp' = mp /\ popup' = popup /\ ev'.fx = "none"
       /\ (scene = "PinkParents" /\ ev'.op = "handleColorClick"
              /\ pp.matchState \in {"Animating", "Finished"}) =>
             pp' = pp /\ popup' = popup /\ ev'.fx = "none"]_vars

\* a baby pressed while the snap animation of a correct match is running
C9_Witness ==
    /\ scene = "MatchPenguin"
    /\ mp.matchState = "Animating" /\ mp.snapTween
    /\ ev.op = "handleDragStart" /\ ev.fx = "none"

\* C10: at most one target sprite exists at any time, and while the state
\* is Idle or Dragging exactly one exists and the active index is inside
\* the queue.
C10_SingleTarget ==
    /\ mp.liveParents <= 1
    /\ pp.liveFlamingos <= 1
    /\ (scene = "MatchPenguin" /\ mp.matchState \in {"Idle", "Dragging"}) =>
          /\ mp.liveParents = 1
          /\ mp.activeParentSprite # "null"
          /\ mp.activeParentIndex < Len(mp.parentQueue)
    /\ (scene = "PinkParents" /\ pp.matchState = "Idle") =>
          /\ pp.liveFlamingos = 1
          /\ pp.activeFlamingoSprite # "null"
          /\ pp.activeFlamingoIndex < Len(pp.flamingoQueue)

\* the third parent is being dragged onto
C10_Witness ==
    /\ scene = "MatchPenguin"
    /\ mp.matchState = "Dragging" /\ mp.activeParentIndex = 2

\* C11: a baby's matched flag becomes true in exactly the steps that judge a
\* correct match of that baby, is never cleared within an activation, and a
\* matched baby takes no pointer input and is never the dragged baby.
C11_MatchedIsMonotonic ==
    /\ [](\A b \in PenguinId :
             mp.matched[b] => ~mp.interactive[b] /\ mp.dragBaby # b)
    /\ [][(scene = "MatchPenguin" /\ ev'.op # "restart") =>
            \A b \in PenguinId :
               /\ mp.matched[b] => mp'.matched[b]
               /\ (~mp.matched[b] /\ mp'.matched[b]) <=>
                     (ev'.op = "onPointerUp" /\ ev'.arg = "correct"
                        /\ mp.dragBaby = b)]_vars

\* another baby is dragged while an earlier one is matched
C11_Witness ==
    /\ scene = "MatchPenguin"
    /\ mp.matchState = "Dragging"
    /\ \E b \in PenguinId : mp.matched[b] /\ mp.alpha[b] = MATCHED_ALPHA

\* C12: a drop of the wrong baby on the drop area, or a drop outside it,
\* restores the baby's opacity, destroys the clone, clears the drag, returns
\* to Idle and leaves the index and the matched flags alone; the try-again
\* toast is shown for the wrong match only.
C12_WrongAndMissRevert ==
    [][(scene = "MatchPenguin" /\ ev'.op = "onPointerUp"
           /\ ev'.arg \in {"wrong", "miss"}) =>
         /\ mp.dragBaby # "null"
         /\ mp'.alpha[mp.dragBaby] = FULL_ALPHA
         /\ mp'.liveClones = 0
         /\ mp'.dragBaby = "null"
         /\ mp'.matchState = "Idle"
         /\ mp'.activeParentIndex = mp.activeParentIndex
         /\ mp'.matched = mp.matched
         /\ mp'.matches = mp.matches
         /\ mp'.activeParentSprite = mp.activeParentSprite
         /\ ev'.fx = (IF ev'.arg = "wrong" THEN "toastTryAgain" ELSE "none")]_vars

\* a drop outside the drop area after one parent was matched
C12_Witness ==
    /\ scene = "MatchPenguin"
    /\ ev.op = "onPointerUp" /\ ev.arg = "miss"
    /\ mp.activeParentIndex = 1 /\ mp.matchState = "Idle"

\* C13: in both matching games the state is Finished exactly when the index
\* equals the queue length, which takes three correct matches; in Finished
\* nothing but the popup timer and the restart changes the state; the modal
\* is opened by that timer only, and with the modal open the only step that
\* changes anything is the restart.
C13_FinishedAtQueueEnd ==
    /\ [](/\ scene = "MatchPenguin" =>
               /\ mp.matchState = "Finished" <=>
                     mp.activeParentIndex = Len(PENGUIN_IDS)
               /\ mp.matchState = "Finished" => mp.matches = Len(PENGUIN_IDS)
               /\ (mp.finishTimer \/ popup = "shown") => mp.matchState = "Finished"
          /\ scene = "PinkParents" =>
               /\ pp.matchState = "Finished" <=>
                     pp.activeFlamingoIndex = Len(FLAMINGO_IDS)
               /\ pp.matchState = "Finished" => pp.matches = Len(FLAMINGO_IDS)
               /\ (pp.finishTimer \/ popup = "shown") => pp.matchState = "Finished")
    /\ [][/\ (scene = "MatchPenguin" /\ mp.matchState = "Finished"
                 /\ ev'.op \notin {"showPopup", "restart"}) =>
                mp' = mp /\ popup' = popup
          /\ (scene = "PinkParents" /\ pp.matchState = "Finished"
                 /\ ev'.op \notin {"showPopup", "restart"}) =>
                pp' = pp /\ popup' = popup /\ ev'.fx = "none"
          /\ (scene \in {"MatchPenguin", "PinkParents"}
                 /\ popup = "none" /\ popup' = "shown") =>
                ev'.op = "showPopup" /\ (mp.finishTimer \/ pp.finishTimer)
          /\ (scene \in {"MatchPenguin", "PinkParents"} /\ popup = "shown"
                 /\ ev'.op # "restart") =>
                mp' = mp /\ pp' = pp /\ popup' = popup]_vars

\* a swatch pressed after the last flamingo left, before the modal opens
C13_Witness ==
    /\ scene = "PinkParents"
    /\ pp.matchState = "Finished" /\ pp.finishTimer
    /\ ev.op = "handleColorClick" /\ ev.fx = "none"

\* C14: the pair of global pointer listeners is registered exactly while
\* the state is Dragging, once; the pointer-up step of a drag removes it.
C14_ListenersOnlyWhileDragging ==
    /\ [](/\ mp.registered \in {0, 1}
          /\ mp.registered = 1 <=> mp.matchState = "Dragging"
          /\ mp.pointerHandlers <=> mp.registered = 1
          /\ mp.matchState = "Dragging" <=> mp.dragBaby # "null")
    /\ [][/\ (scene = "MatchPenguin" /\ ev'.op = "handleDragStart"
                 /\ ev'.fx = "clone") =>
                mp.registered = 0 /\ mp'.registered = 1
          /\ (scene = "MatchPenguin" /\ ev'.op = "onPointerUp") =>
                mp.registered = 1 /\ mp'.registered = 0]_vars

\* the pointer moved during the drag of the last baby
C14_Witness ==
    /\ scene = "MatchPenguin"
    /\ ev.op = "onPointerMove" /\ mp.registered = 1
    /\ mp.activeParentIndex = 2

C16_NoSpawnAfterGameOver ==
    /\ [](cf.isGameOver =>
            /\ cf.activeFish = <<>>
            /\ cf.spawnTimers = 0
            /\ CF_spawnFish(cf) = {cf}
            /\ CF_scheduleNextSpawn(cf) = cf)
    /\ [][(scene = "CatchFish" /\ cf.isGameOver /\ ev'.op # "restart") =>
            /\ ev'.op # "spawnFish"
            /\ cf'.caughtCount = cf.caughtCount
            /\ ev'.op = "catchFish" =>
                  cf' = cf /\ popup' = popup /\ ev'.fx = "none"]_vars

\* a fish that fades out after the win is tapped before the modal opens
C16_Witness ==
    /\ scene = "CatchFish"
    /\ cf.isGameOver /\ cf.finishTimer
    /\ ev.op = "catchFish"
    /\ cf.fish[ev.arg].fades > 0 /\ cf.fish[ev.arg].catches = 0

\* C17: in the catch, paddle and matching games the win handler runs at
\* most once and the modal is opened at most once per activation, and after
\* game-over no step but the restart changes the score.
C17_WinOnce ==
    /\ [](/\ cf.wins <= 1 /\ cf.popups <= 1
          /\ pf.wins <= 1 /\ pf.popups <= 1
          /\ mp.wins <= 1 /\ mp.popups <= 1
          /\ pp.wins <= 1 /\ pp.popups <= 1)
    /\ [][ev'.op # "restart" =>
            /\ cf.isGameOver =>
                  cf'.caughtCount = cf.caughtCount /\ cf'.wins = cf.wins
            /\ pf.gameState = "Finished" =>
                  pf'.progress = pf.progress /\ pf'.tapCount = pf.tapCount
            /\ mp.matchState = "Finished" =>
                  mp'.matches = mp.matches /\ mp'.wins = mp.wins
            /\ pp.matchState = "Finished" =>
                  pp'.matches = pp.matches /\ pp'.wins = pp.wins]_vars

\* a fish lifetime timer fires while the modal of the catch game is open
C17_Witness ==
    /\ scene = "CatchFish"
    /\ popup = "shown" /\ cf.wins = 1 /\ cf.popups = 1
    /\ ev.op = "lifetime"

\* C18: every restart, by the play-again button or by a re-activation of
\* the scene, leaves the controller in a state of its first creation and no
\* modal open, whatever the state before.
C18_RestartLaw ==
    [][ev'.op = "restart" =>
         /\ popup' = "none"
         /\ scene = "PaddleFood" =>
               /\ pf' = PaddleFresh
               /\ pf'.progress = 0 /\ pf'.tapCount = 0
               /\ pf'.expectedSide = "left" /\ pf'.gameState = "Idle"
         /\ scene = "CatchFish" =>
               /\ cf' = CF_Fresh
               /\ cf'.caughtCount = 0 /\ cf'.activeFish = <<>>
               /\ ~cf'.isGameOver
         /\ scene = "MatchPenguin" =>
               /\ \E order \in Shuffle(PENGUIN_IDS) :
                     mp' = MP_create(MP_Unborn, order)
               /\ mp'.activeParentIndex = 0 /\ mp'.dragBaby = "null"
               /\ \A b \in PenguinId : ~mp'.matched[b]
         /\ scene = "PinkParents" =>
               /\ \E order \in Shuffle(FLAMINGO_IDS) :
                     pp' = PP_create(PP_Unborn, order)
               /\ pp'.activeFlamingoIndex = 0
         /\ scene = "CountEgg" =>
               /\ \E param \in QueryParams : ce' = CE_create(CE_Unborn, param)
               /\ ce'.inputValue = <<>> /\ ce'.overlayContainer = "null"
               /\ ~ce'.isErrorFlashing]_vars

\* the catch game was restarted from its modal, that is after a full round
C18_Witness ==
    /\ scene = "CatchFish"
    /\ ev.op = "restart" /\ ev.fx = "playAgain"
    /\ cf.caughtCount = 0 /\ ~cf.isGameOver

\* C19: a key pressed during the failure flash is applied to the input.
C19_EditableDuringFlash ==
    [][(scene = "CountEgg" /\ ev'.op = "handleKeyPress" /\ ce.isErrorFlashing) =>
         ce'.inputValue = CE_applyKey(ce.inputValue, ev'.arg)]_vars

\* C20: a wrong Submit starts the flash and changes neither the input nor
\* the overlay; the flash timer clears the flag and leaves the input as it
\* is, and after it key presses and Submit are no longer blocked.
C20_WrongSubmitKeepsInput ==
    [][/\ (scene = "CountEgg" /\ ev'.op = "handleSubmit" /\ ev'.arg = "wrong") =>
             /\ ce'.inputValue = ce.inputValue
             /\ ce'.overlayContainer = ce.overlayContainer
             /\ ce'.isErrorFlashing
             /\ ce'.flashTimers = ce.flashTimers + 1
             /\ popup' = popup
       /\ (scene = "CountEgg" /\ ev'.op = "flashTimer") =>
             /\ ce'.inputValue = ce.inputValue
             /\ ce'.overlayContainer = ce.overlayContainer
             /\ ~ce'.isErrorFlashing /\ ~ce'.tint
             /\ ~CE_keyIgnored(ce')
             /\ CE_submitOutcome(ce') # "flashing"]_vars

\* the flash of a wrong answer "44" has ended with the overlay still open
C20_Witness ==
    /\ scene = "CountEgg"
    /\ ev.op = "flashTimer"
    /\ ce.overlayContainer = "open" /\ ce.inputValue = <<"4", "4">>
    /\ ce.correctAnswer = DEFAULT_CORRECT_ANSWER /\ ~ce.isErrorFlashing

\* C21: in the count-egg game a Submit press is a no-op whenever the input
\* is empty or a failure flash is in progress: the overlay, the input, the
\* flash and every pending timer stay as they are and no modal is scheduled.
C21_SubmitNoOp ==
    [][(/\ scene = "CountEgg"
        /\ ev'.op = "handleSubmit"
        /\ (Len(ce.inputValue) = 0 \/ ce.isErrorFlashing))
       => (ce' = ce /\ popup' = popup)]_vars

\* Submit was pressed during the flash of an open overlay with a non-empty
\* input, and while the popup timer of no earlier success was pending
C21_Witness ==
    /\ scene = "CountEgg"
    /\ ev.op = "handleSubmit"
    /\ ev.arg = "flashing"
    /\ ce.overlayContainer = "open"
    /\ Len(ce.inputValue) > 0
    /\ ce.isErrorFlashing
    /\ ce.popupTimers = 0

\* C22: an accepted Submit (input non-empty, no flash in progress) takes the
\* success path - overlay closed, one popup timer scheduled - if and only
\* if the input equals the expected answer character for character; every
\* other input takes the failure path: the flag is set, one flash timer is
\* scheduled and the overlay stays as it is.
C22_ExactCompare ==
    [][(/\ scene = "CountEgg"
        /\ ev'.op = "handleSubmit"
        /\ ~ce.isErrorFlashing
        /\ Len(ce.inputValue) > 0)
       => IF ce.inputValue = ce.correctAnswer
          THEN /\ ev'.arg = "correct"
               /\ ce'.overlayContainer = "null"
               /\ ce'.popupTimers = ce.popupTimers + 1
               /\ ce'.flashTimers = ce.flashTimers
               /\ ~ce'.isErrorFlashing
          ELSE /\ ev'.arg = "wrong"
               /\ ce'.isErrorFlashing
               /\ ce'.flashTimers = ce.flashTimers + 1
               /\ ce'.popupTimers = ce.popupTimers
               /\ ce'.overlayContainer = ce.overlayContainer]_vars

\* the input "4," was submitted against the expected answer "4" and failed
C22_Witness ==
    /\ scene = "CountEgg"
    /\ ev.op = "handleSubmit"
    /\ ev.arg = "wrong"
    /\ ce.inputValue = <<"4", SEPARATOR>>
    /\ ce.correctAnswer = <<"4">>
    /\ ce.isErrorFlashing
    /\ ce.popupTimers = 0

\* C23: after any sequence of key presses the input has at most
\* INPUT_MAX_LENGTH characters, only digits and the separator, and the
\* separator at most once; a press of the delete key removes exactly the
\* last character and changes nothing on the empty input.
C23_InputDiscipline ==
    /\ [](/\ Len(ce.inputValue) <= INPUT_MAX_LENGTH
          /\ \A i \in 1..Len(ce.inputValue) :
                ce.inputValue[i] \in
                    {"0", "1", "2", "3", "4", "5", "6", "7", "8", "9", SEPARATOR}
          /\ \A i, j \in 1..Len(ce.inputValue) :
                (ce.inputValue[i] = SEPARATOR /\ ce.inputValue[j] = SEPARATOR)
                    => i = j)
    /\ [][(scene = "CountEgg" /\ ev'.op = "handleKeyPress" /\ ev'.arg = BACKSPACE)
          => ce'.inputValue =
                IF Len(ce.inputValue) = 0 THEN <<>>
                ELSE SubSeq(ce.inputValue, 1, Len(ce.inputValue) - 1)]_vars

\* C24: a correct submission causes the play-again modal to be shown exactly
\* once before the restart: after it no further Submit press, the one that
\* reaches the closed overlay during its fade-out included, schedules or
\* shows another modal, so the modals shown and the pending popup timers of
\* one activation never number more than one.
C24_ModalOnce ==
    scene = "CountEgg" => ce.popups + ce.popupTimers <= 1

\* C25: a correct submission closes the overlay in the same step, and the
\* overlay is still closed when the delayed modal is shown, whatever the
\* user taps (the "Submit Answer" button of the scene included) during the
\* 300 ms delay.
C25_OverlayClosedAtModal ==
    /\ [][(scene = "CountEgg" /\ ev'.op = "handleSubmit" /\ ev'.arg = "correct")
          => ce'.overlayContainer = "null"]_vars
    /\ []((scene = "CountEgg" /\ ev.op = "showPopup")
          => ce.overlayContainer = "null")

\* C26: the expected answer of the count-egg game is fixed once at scene
\* start: it is the total_egg parameter when that is present and valid (a
\* non-empty string of digits), the default "4" when the parameter is
\* absent, empty or no number, and no step of the activation changes it.
C26_AnswerFromParam ==
    /\ [](scene = "CountEgg"
          => ce.correctAnswer =
                IF /\ Len(ce.param) > 0
                   /\ \A i \in 1..Len(ce.param) :
                         ce.param[i] \in
                            {"0", "1", "2", "3", "4", "5", "6", "7", "8", "9"}
                THEN ce.param
                ELSE DEFAULT_CORRECT_ANSWER)
    /\ [][(scene = "CountEgg" /\ ev'.op # "restart")
          => ce'.correctAnswer = ce.correctAnswer]_vars

\* C27: Cancel closes the overlay without other effect: it schedules no
\* modal and no timer, shows no modal and leaves the expected answer and
\* every other field but the overlay and its fade-out as they are; the next
\* open starts with the empty input and the flash flag false.
C27_CancelDiscards ==
    /\ [][(scene = "CountEgg" /\ ev'.op = "closeOverlay")
          => /\ ce'.overlayContainer = "null"
             /\ ce'.fading = ce.fading + (IF ce.overlayContainer = "null" THEN 0 ELSE 1)
             /\ ~ce'.tint
             /\ ce' = [ce EXCEPT !.overlayContainer = ce'.overlayContainer,
                                 !.fading = ce'.fading,
                                 !.tint = ce'.tint]
             /\ popup' = popup]_vars
    /\ [][(scene = "CountEgg" /\ ev'.op = "openOverlay")
          => /\ ce'.overlayContainer = "open"
             /\ ce'.inputValue = <<>>
             /\ ~ce'.isErrorFlashing
             /\ ~ce'.tint]_vars

\* the overlay was opened again after a Cancel that discarded a non-empty
\* input in the middle of a failure flash: its flash timer is still pending
C27_Witness ==
    /\ scene = "CountEgg"
    /\ ev.op = "openOverlay"
    /\ ce.overlayContainer = "open"
    /\ ce.inputValue = <<>>
    /\ ~ce.isErrorFlashing
    /\ ce.flashTimers > 0
    /\ ce.popupTimers = 0

\* C28: in the paddle game the progress always equals BASE_STEP (5) times
\* the number of accepted taps of the activation, and the state is Finished
\* exactly from the 20th accepted tap on, never after fewer; the tap counter
\* counts the accepted taps and nothing else.
C28_ProgressIsStepTimesTaps ==
    /\ [](scene = "PaddleFood"
          => /\ BASE_STEP = 5
             /\ pf.progress = BASE_STEP * pf.tapCount
             /\ pf.tapCount \in 0..20
             /\ (pf.gameState = "Finished") <=> (pf.tapCount = 20))
    /\ [][(scene = "PaddleFood" /\ ev'.op # "restart")
          => pf'.tapCount = pf.tapCount +
                (IF ev'.op = "onTap" /\ ev'.fx = "flashGreen" THEN 1 ELSE 0)]_vars

\* the 20th accepted tap has just finished the game
C28_Witness ==
    /\ scene = "PaddleFood"
    /\ ev.op = "onTap"
    /\ ev.fx = "flashGreen"
    /\ pf.tapCount = 20
    /\ pf.progress = MAX_PROGRESS
    /\ pf.gameState = "Finished"
    /\ pf.winTimer

\* C29: the target Y of the finish spot equals FINISH_Y0 + SCROLL_PER_TAP
\* times the accepted taps; it equals DUCK_Y exactly when the winning tap
\* has been accepted and lies strictly above the duck (smaller Y) after
\* every earlier tap.
C29_FinishSpotReachesDuck ==
    scene = "PaddleFood"
    => /\ pf.finishTargetY = FINISH_Y0 + SCROLL_PER_TAP * pf.tapCount
       /\ (pf.finishTargetY = DUCK_Y) <=> (pf.gameState = "Finished")
       /\ pf.gameState # "Finished" => pf.finishTargetY < DUCK_Y
       /\ pf.finishTargetY <= DUCK_Y

\* the 19th accepted tap: the finish spot is one scroll step above the duck
C29_Witness ==
    /\ scene = "PaddleFood"
    /\ ev.op = "onTap"
    /\ ev.fx = "flashGreen"
    /\ pf.tapCount = MAX_TAPS - 1
    /\ pf.finishTargetY = DUCK_Y - SCROLL_PER_TAP
    /\ pf.gameState = "Swimming"

\* C30: in the catch game a run of spawnFish() either appends one fish to
\* the active list, at a distance of at least FISH_MIN_SPACING from every
\* fish that was in the list at that moment, or - only when candidates of
\* the attempt loop overlap a listed fish - adds no fish and does nothing
\* else; the fish that were listed stay listed, in order and in place.
C30_SpawnKeepsSpacing ==
    [][(scene = "CatchFish" /\ ev'.op = "spawnFish")
       => LET old == cf.activeFish
              new == cf'.activeFish
          IN  \/ /\ Len(new) = Len(old) + 1
                 /\ SubSeq(new, 1, Len(old)) = old
                 /\ \A i \in 1..Len(old) : cf'.fish[old[i]] = cf.fish[old[i]]
                 /\ cf'.fish[new[Len(new)]].active
                 /\ \A i \in 1..Len(old) :
                       LET dx == cf.fish[old[i]].pos[1] - cf'.fish[new[Len(new)]].pos[1]
                           dy == cf.fish[old[i]].pos[2] - cf'.fish[new[Len(new)]].pos[2]
                       IN  dx * dx + dy * dy >= FISH_MIN_SPACING * FISH_MIN_SPACING
              \/ /\ new = old
                 /\ cf'.fish = cf.fish
                 /\ cf'.caughtCount = cf.caughtCount
                 /\ cf'.isGameOver = cf.isGameOver
                 /\ \E q \in Candidates : CF_isOverlappingFish(cf, q)]_vars

\* a fish was placed while another fish was in the active list
C30_Witness ==
    /\ scene = "CatchFish"
    /\ ev.op = "spawnFish"
    /\ ev.arg = 1
    /\ Len(cf.activeFish) = 2
    /\ cf.fish[cf.activeFish[1]].active
    /\ cf.fish[cf.activeFish[2]].active

\* C31: in the catch game at most one spawn timer is pending at any time; a
\* spawn timer is scheduled only by create() and by the callback of the
\* previous spawn timer, which schedules the next one after its spawn
\* attempt, placed or skipped.
C31_SpawnNotPipelined ==
    /\ [](scene = "CatchFish" => cf.spawnTimers \in {0, 1})
    /\ [][scene = "CatchFish"
          => /\ ev'.op = "spawnFish"
                  => /\ cf.spawnTimers = 1
                     /\ cf'.spawnTimers = IF cf'.isGameOver THEN 0 ELSE 1
             /\ ev'.op \notin {"spawnFish", "restart"}
                  => cf'.spawnTimers <= cf.spawnTimers]_vars

\* the spawn attempt of a timer callback was skipped beside a listed fish
\* and the next spawn timer is pending
C31_Witness ==
    /\ scene = "CatchFish"
    /\ ev.op = "spawnFish"
    /\ ev.arg = 0
    /\ ~cf.isGameOver
    /\ Len(cf.activeFish) = 1
    /\ cf.spawnTimers = 1

\* C32: in the flamingo game the swatches are never disabled: while the
\* scene runs each of the three swatches is selectable, the ones of earlier
\* correct matches included; a selection in the Idle state is judged against
\* the current flamingo, and a wrong one changes nothing - state, index,
\* queue and swatches stay - and shows the try-again toast.
C32_SwatchesStaySelectable ==
    /\ [](scene = "PinkParents" => \A c \in FlamingoId : pp.swatchInteractive[c])
    /\ [][(/\ scene = "PinkParents"
           /\ ev'.op = "handleColorClick"
           /\ pp.matchState = "Idle")
          => IF ev'.arg = pp.flamingoQueue[pp.activeFlamingoIndex + 1].targetColorId
             THEN /\ ev'.fx = "toastCorrect"
                  /\ pp'.matchState = "Animating"
                  /\ pp'.matches = pp.matches + 1
             ELSE /\ ev'.fx = "toastTryAgain"
                  /\ pp' = pp]_vars

\* the swatch of the first, already matched flamingo was selected for a
\* later flamingo and judged wrong
C32_Witness ==
    /\ scene = "PinkParents"
    /\ ev.op = "handleColorClick"
    /\ ev.fx = "toastTryAgain"
    /\ pp.activeFlamingoIndex >= 1
    /\ ev.arg = pp.flamingoQueue[1].targetColorId
    /\ pp.matchState = "Idle"

\* C33: in both matching games the target queue holds each of the three ids
\* exactly once, every entry requires the choice with its own id, and no
\* step but a restart changes the queue.
C33_QueueFixedPermutation ==
    /\ [](/\ scene = "MatchPenguin"
             => /\ Len(mp.parentQueue) = 3
                /\ \A b \in PenguinId :
                      \E i \in 1..3 : mp.parentQueue[i].id = b
                /\ \A i \in 1..3 :
                      mp.parentQueue[i].targetBabyId = mp.parentQueue[i].id
          /\ scene = "PinkParents"
             => /\ Len(pp.flamingoQueue) = 3
                /\ \A c \in FlamingoId :
                      \E i \in 1..3 : pp.flamingoQueue[i].id = c
                /\ \A i \in 1..3 :
                      pp.flamingoQueue[i].targetColorId = pp.flamingoQueue[i].id)
    /\ [][ev'.op # "restart"
          => /\ mp'.parentQueue = mp.parentQueue
             /\ pp'.flamingoQueue = pp.flamingoQueue]_vars

\* the third parent of a shuffled queue is on stage after two correct matches
C33_Witness ==
    /\ scene = "MatchPenguin"
    /\ mp.parentQueue[1].id # PENGUIN_IDS[1]
    /\ mp.activeParentIndex = 2
    /\ mp.matches = 2
    /\ mp.activeParentSprite = mp.parentQueue[3].id

\* C37: in the penguin game the number of babies with matched = true equals
\* the number of correct matches made in the activation, which is the
\* active index, plus one while the snap and slide-out after a correct
\* match are still in progress; in the Finished state all three babies are
\* matched.
C37_MatchedCountsMatches ==
    scene = "MatchPenguin"
    => LET n == Cardinality({b \in PenguinId : mp.matched[b]})
       IN  /\ n = mp.matches
           /\ n = mp.activeParentIndex +
                    (IF mp.snapTween \/ mp.slideTween THEN 1 ELSE 0)
           /\ mp.matchState = "Finished" => n = Len(PENGUIN_IDS)

\* the slide-out after the second correct match is in progress
C37_Witness ==
    /\ scene = "MatchPenguin"
    /\ mp.slideTween
    /\ mp.activeParentIndex = 1
    /\ Cardinality({b \in PenguinId : mp.matched[b]}) = 2

\* C39: in the count-egg game the flash flag is true exactly while the
\* flash timer of the most recent wrong submission is pending (timers of
\* equal delay fire in the order they were started, so that timer is pending
\* as long as any is); a flash timer of an earlier overlay session that
\* fires while a later wrong submission is flashing clears neither the flag
\* nor the red tint of that submission.
C39_FlashFollowsOwnTimer ==
    /\ [](scene = "CountEgg" => (ce.isErrorFlashing <=> ce.flashTimers > 0))
    /\ [][(/\ scene = "CountEgg"
           /\ ev'.op = "flashTimer"
           /\ ce.flashTimers > 1)
          => /\ ce'.isErrorFlashing = ce.isErrorFlashing
             /\ ce'.tint = ce.tint]_vars

\* C38: in both matching games no state is stuck. In every Idle state the
\* choice the current target requires is selectable (in the penguin game
\* unmatched and interactive); in every Dragging state the pointer-up
\* listener is registered and a baby is held; in every Animating state an
\* animation is pending whose completion leaves the state; Finished has its
\* popup timer pending or the popup shown. So, when animations and timers
\* complete and the player keeps making the correct selection, the
\* play-again modal is shown again and again.
C38_NeverStuck ==
    /\ [](scene = "MatchPenguin"
          => /\ mp.matchState = "Idle"
                => /\ mp.activeParentSprite # "null"
                   /\ mp.activeParentIndex < Len(mp.parentQueue)
                   /\ ~mp.matched[mp.parentQueue[mp.activeParentIndex + 1].targetBabyId]
                   /\ mp.interactive[mp.parentQueue[mp.activeParentIndex + 1].targetBabyId]
             /\ mp.matchState = "Dragging"
                => mp.registered > 0 /\ mp.dragBaby # "null"
             /\ mp.matchState = "Animating"
                => mp.spawnTween \/ mp.snapTween \/ mp.slideTween
             /\ mp.matchState = "Finished"
                => mp.finishTimer \/ popup = "shown")
    /\ [](scene = "PinkParents"
          => /\ pp.matchState = "Idle"
                => /\ pp.activeFlamingoSprite # "null"
                   /\ pp.activeFlamingoIndex < Len(pp.flamingoQueue)
                   /\ pp.swatchInteractive[pp.flamingoQueue[pp.activeFlamingoIndex + 1].targetColorId]
             /\ pp.matchState = "Animating"
                => pp.spawnTween \/ pp.slideTween
             /\ pp.matchState = "Finished"
                => pp.finishTimer \/ popup = "shown")
    /\ []<>(popup = "shown")

\* the modal of the penguin game is shown after three correct matches
C38_Witness ==
    /\ scene = "MatchPenguin"
    /\ popup = "shown"
    /\ mp.matchState = "Finished"
    /\ mp.matches = 3
    /\ ev.op = "showPopup"

\* C40: in the catch game the active list holds only live fish that were
\* neither caught nor escaped, and each of them once; every fish in the
\* list leaves it eventually (caught, lifetime expired, cleared at the win
\* or at a restart) when the timers fire, that is, no fish stays listed
\* from some point on; while the game is not over a
\* spawn timer is pending, and a spawn, placed or skipped, before game-over
\* leaves the next spawn timer pending.
C40_FishLeaveAndSpawningGoesOn ==
    /\ [](\A i \in 1..Len(cf.activeFish) :
            LET fi == cf.fish[cf.activeFish[i]]
            IN  /\ fi.used /\ fi.active
                /\ fi.catches = 0 /\ fi.escapes = 0
                /\ \A j \in 1..Len(cf.activeFish) :
                      cf.activeFish[j] = cf.activeFish[i] => j = i)
    /\ []((scene = "CatchFish" /\ ~cf.isGameOver) => cf.spawnTimers = 1)
    /\ [][(scene = "CatchFish" /\ ev'.op = "spawnFish" /\ ~cf'.isGameOver)
          => cf'.spawnTimers = 1]_vars
    /\ \A f \in FishId : []<>(~InList(cf, f))

\* the lifetime of a fish expired and took it out of the active list while
\* another fish stays listed and the next spawn timer is pending
C40_Witness ==
    /\ scene = "CatchFish"
    /\ ev.op = "lifetime"
    /\ ev.fx = "escape"
    /\ ~InList(cf, ev.arg)
    /\ cf.fish[ev.arg].escapes = 1
    /\ Len(cf.activeFish) = 1
    /\ cf.spawnTimers = 1
    /\ ~cf.isGameOver

\* C34: after any sequence of route changes handled by switchScene() at
\* most one scene is active, the one GameController holds as active; a
\* switch to another scene stops the previously active scene before it
\* starts the target, and a switch to the scene that is already running
\* stops it and starts it afresh.
C34_OneActiveScene ==
    /\ [](\A k \in RegisteredKeys : app.status[k] # "stopped" => k = scene)
    /\ [][ev'.op \in {"startInitialScene", "popstate", "navigate"} =>
            LET n == Len(app'.calls)
            IN  /\ n >= 1
                /\ app'.calls[n] = <<"start", scene'>>
                /\ \A i \in 1..(n - 1) : app'.calls[i][1] = "stop"
                /\ app'.status[scene'] # "stopped"
                /\ (scene # "null" /\ scene # scene') =>
                      /\ app'.calls[1] = <<"stop", scene>>
                      /\ app'.status[scene] = "stopped"
                /\ (scene = scene' /\ app.status[scene] = "running") =>
                      /\ app'.calls = << <<"stop", scene>>, <<"start", scene>> >>
                      /\ scene \in SceneKeys =>
                            /\ ~app'.bs[scene].activePopup
                            /\ app'.bs[scene].shutdownListeners
                                 = IF app'.status[scene] = "running" THEN 1 ELSE 0
       ]_vars

\* a route change took the game from the running catch game to the paddle
\* game: CatchFish stopped, then PaddleFood started
C34_Witness ==
    /\ ev.op = "popstate"
    /\ scene = "PaddleFood"
    /\ app.calls = << <<"stop", "CatchFish">>, <<"start", "PaddleFood">> >>
    /\ app.status["CatchFish"] = "stopped"
    /\ app.status["PaddleFood"] = "running"
    /\ app.bs["CatchFish"].shutdownListeners = 0

\* C35: resolve() maps each of the five documented routes, with or without
\* trailing slashes, to its own scene key and every other pathname to Menu,
\* and getCurrentSceneKey() returns that key afterwards.
C35_ResolveDocumentedRoutes ==
    ev.op \in {"startInitialScene", "popstate"} =>
        LET pathname == ev.arg
            documented ==
                [n \in {"match-penguin", "catch-fish", "paddle-food",
                        "pink-parents", "count-egg"} |->
                    CASE n = "match-penguin" -> "MatchPenguin"
                      [] n = "catch-fish" -> "CatchFish"
                      [] n = "paddle-food" -> "PaddleFood"
                      [] n = "pink-parents" -> "PinkParents"
                      [] n = "count-egg" -> "CountEgg"]
            isRoute ==
                /\ Len(pathname) >= 2
                /\ pathname[1] = "/"
                /\ pathname[2] \in DOMAIN documented
                /\ \A i \in 3..Len(pathname) : pathname[i] = "/"
        IN  /\ ev.fx = IF isRoute THEN documented[pathname[2]] ELSE "Menu"
            /\ app.currentSceneKey = ev.fx

\* C36: a scene has at most one window resize listener, registered exactly
\* while the scene is between create() and shutdown; a scene that was shut
\* down has no active popup, no tap zone and no landscape overlay, and its
\* shutdown listener is gone with it.
C36_ListenerBetweenCreateAndShutdown ==
    \A k \in SceneKeys :
        /\ app.bs[k].resizeListeners = IF app.status[k] = "running" THEN 1 ELSE 0
        /\ app.bs[k].resizeHandler = (app.status[k] = "running")
        /\ app.bs[k].shutdownListeners = app.bs[k].resizeListeners
        /\ app.status[k] # "running" =>
              /\ ~app.bs[k].activePopup
              /\ app.bs[k].tapZones = 0
              /\ ~app.bs[k].landscapeOverlay

\* the paddle game, running in landscape with its two tap zones and the
\* overlay, was shut down by a route change while the catch game was
\* created
C36_Witness ==
    /\ ev.op = "popstate"
    /\ app.isLandscape
    /\ app.calls = << <<"stop", "PaddleFood">>, <<"start", "CatchFish">> >>
    /\ app.status["PaddleFood"] = "stopped"
    /\ app.bs["PaddleFood"].resizeListeners = 0
    /\ app.bs["PaddleFood"].tapZones = 0
    /\ app.status["CatchFish"] = "running"
    /\ app.bs["CatchFish"].resizeListeners = 1
    /\ app.bs["CatchFish"].landscapeOverlay
====
